---- MODULE Spec2Model ----
(***************************************************************************)
(* A model of the cashcov read-through cache: the per-key mutex            *)
(* (lock.go), the Handler's Set / Get / GetOrRefresh (cache.go) and the    *)
(* miss-policy handlers, hit-path refresh and background tasks            *)
(* (helper.go).  Every backend operation, ledger access, lock operation   *)
(* and generator call of a task is one atomic step; tasks interleave      *)
(* freely.                                                                *)
(***************************************************************************)
EXTENDS Integers, Sequences, FiniteSets, TLC

(***************************************************************************)
(* Bounds of the model.                                                    *)
(***************************************************************************)
\* number of tasks that use the KeyedMutex directly (SpecLock)
NumLockTasks == 3
\* number of concurrent handler calls (each may spawn one goroutine)
NumCalls == 2
\* number of concurrent callers in the single-flight scenario (SpecSync)
NumSyncCalls == 3
\* the number of concurrent calls in SpecTimed
NumTimedCalls == 3
\* the refresh cooldown of the specifications that have one, in clock ticks
Cooldown == 2
\* the time to live of stale copies in SpecStale, in clock ticks
StaleTTL == 3
\* the clock runs from 0 to MaxTime
MaxTime == 3

LockTasks == 1..NumLockTasks
LockKeys == {"a", "b"}

VARIABLES
    locks,      \* KeyedMutex.locks: full key -> number of tokens in its channel
    km,         \* the tasks that use the KeyedMutex directly: [pc, key]
    now,        \* wall clock
    rdb,        \* the backend: full key -> [raw, exp, by]
    ledger,     \* Handler.lastRefreshByKey: ledger key -> time
    cfg,        \* handlerConfig
    env,        \* what the callers and the environment may do
    call,       \* the handler calls: one record per call
    bg,         \* the goroutine spawned by each call: one record per call
    stats       \* per call: generator invocations, backend writes, ledger writes

vars == <<locks, km, now, rdb, ledger, cfg, env, call, bg, stats>>

\* everything but the KeyedMutex and its direct users
handlerVars == <<now, rdb, ledger, cfg, env, call, bg, stats>>

(***************************************************************************)
(* KeyedMutex (lock.go).  A key's lock is a channel of capacity 1: a send  *)
(* acquires, a receive releases.                                           *)
(***************************************************************************)
ChanCapTwo == 1 + 1

\* make(chan struct{}, 1)
ChanCap == 1

\* km.ch(key): the key's channel, created empty on first use
ch(l, key) == IF key \in DOMAIN l THEN l ELSE l @@ (key :> 0)

\* whether `ch <- struct{}{}` can proceed
CanSend(l, key) == ch(l, key)[key] < ChanCap

\* ch <- struct{}{}
Send(l, key) == [ch(l, key) EXCEPT ![key] = @ + 1]

\* whether the releaser's `<-ch` can proceed
CanRecv(l, key) == key \in DOMAIN l /\ l[key] > 0

\* the releaser: <-ch
Recv(l, key) == [l EXCEPT ![key] = @ - 1]

KmIdle == [pc |-> "idle", key |-> "a"]

\* a task calls km.Lock(key) or km.TryLock(key)
TaskCall(t) ==
    /\ km[t].pc = "idle"
    /\ \E k \in LockKeys, op \in {"Lock", "TryLock"} :
          km' = [km EXCEPT ![t] = [pc |-> op, key |-> k]]
    /\ UNCHANGED <<locks, handlerVars>>

\* Lock: blocks until the send proceeds
TaskLock(t) ==
    /\ km[t].pc = "Lock"
    /\ CanSend(locks, km[t].key)
    /\ locks' = Send(locks, km[t].key)
    /\ km' = [km EXCEPT ![t].pc = "held"]
    /\ UNCHANGED handlerVars

\* TryLock: select { case ch <- struct{}{}: acquired; default: not acquired }
TaskTryLock(t) ==
    /\ km[t].pc = "TryLock"
    /\ IF CanSend(locks, km[t].key)
          THEN /\ locks' = Send(locks, km[t].key)
               /\ km' = [km EXCEPT ![t].pc = "held"]
          ELSE /\ locks' = ch(locks, km[t].key)
               /\ km' = [km EXCEPT ![t].pc = "refused"]
    /\ UNCHANGED handlerVars

\* the holder invokes its releaser once
TaskUnlock(t) ==
    /\ km[t].pc = "held"
    /\ CanRecv(locks, km[t].key)
    /\ locks' = Recv(locks, km[t].key)
    /\ km' = [km EXCEPT ![t].pc = "idle"]
    /\ UNCHANGED handlerVars

\* a refused TryLock whose releaser receives from the channel
TaskNoopReceives(t) ==
    /\ km[t].pc = "refused"
    /\ CanRecv(locks, km[t].key)
    /\ locks' = Recv(locks, km[t].key)
    /\ km' = [km EXCEPT ![t].pc = "idle"]
    /\ UNCHANGED handlerVars

\* a refused TryLock returns func() {}: invoking it does nothing
TaskNoop(t) ==
    /\ km[t].pc = "refused"
    /\ km' = [km EXCEPT ![t].pc = "idle"]
    /\ UNCHANGED <<locks, handlerVars>>

(***************************************************************************)
(* Miss policies (the MissPolicy enumeration).                             *)
(***************************************************************************)
MissPolicySyncWriteThenReturn == 0
MissPolicyReturnThenAsyncWrite == 1
MissPolicyStaleWhileRevalidate == 2
MissPolicyFailFast == 3
MissPolicyRefreshAhead == 4
MissPolicyCooperativeRefresh == 5
MissPolicyBestEffort == 6
MissPolicyProbabilisticRefresh == 7
\* a MissPolicy value outside the enumeration (MissPolicy is an int)
UnknownPolicy == 8

DefinedPolicies == MissPolicySyncWriteThenReturn..MissPolicyProbabilisticRefresh

\* the policies whose miss handler is, or ends in, missSyncWriteThenReturn
SyncPathPolicies ==
    {MissPolicySyncWriteThenReturn, MissPolicyStaleWhileRevalidate,
     MissPolicyRefreshAhead, MissPolicyCooperativeRefresh,
     MissPolicyProbabilisticRefresh}

(***************************************************************************)
(* Values and their encoding.  T is string: a value is a sequence of       *)
(* characters, json.Marshal puts it between quotes and coerces it to valid *)
(* UTF-8 (a byte that is not valid UTF-8 becomes U+FFFD), json.Unmarshal   *)
(* takes the quotes away and fails on anything that is not a quoted string.*)
(***************************************************************************)
Quote == "q"
\* a byte that is not valid UTF-8, and the replacement character U+FFFD
Invalid == "!"
Replacement == "?"
Zero == <<>>
ValX == <<"X">>
ValY == <<"Y">>
ValBad == <<Invalid>>
\* what encoding/json cannot encode (the channel of the tests' badType)
Unsupported == "#"
ValUnsupported == <<Unsupported>>
\* bytes that are not JSON (the "invalid-json-data" of the tests)
Garbage == <<"i", "n", "v">>

\* the string as encoding/json writes it
Coerce(v) == [i \in 1..Len(v) |-> IF v[i] = Invalid THEN Replacement ELSE v[i]]

\* a json.Marshal that writes the bytes as they are
MarshalVerbatim(v) == [ok |-> TRUE, raw |-> <<Quote>> \o v \o <<Quote>>]

\* json.Marshal: an UnsupportedTypeError for what it cannot encode
Marshal(v) ==
    IF \E i \in 1..Len(v) : v[i] = Unsupported
    THEN [ok |-> FALSE, raw |-> <<>>]
    ELSE [ok |-> TRUE, raw |-> <<Quote>> \o Coerce(v) \o <<Quote>>]

Unmarshal(raw) ==
    IF /\ Len(raw) >= 2
       /\ raw[1] = Quote
       /\ raw[Len(raw)] = Quote
       /\ \A i \in 2..(Len(raw) - 1) : raw[i] # Quote
    THEN [ok |-> TRUE, v |-> SubSeq(raw, 2, Len(raw) - 1)]
    ELSE [ok |-> FALSE, v |-> Zero]

(***************************************************************************)
(* Keys.                                                                   *)
(***************************************************************************)
\* the user key the GetOrRefresh and Get calls of the model work on
Key == "k"

\* a user key that ends in "@created"
CreatedAlias == Key \o "@created"

fullKey(key) == IF cfg.prefix = "" THEN key ELSE cfg.prefix \o ":" \o key

\* h.fullKey(key + ":stale")
staleKeyOf(key) == fullKey(key \o ":stale")

\* fullKey + "@created"
createdKeyOf(key) == fullKey(key) \o "@created"

(***************************************************************************)
(* The backend (Redis).  An entry is present until its expiry time.        *)
(***************************************************************************)
\* the writer recorded in entries that were not written by a handler call
External == [c |-> 0, role |-> "external"]

Present(k) == k \in DOMAIN rdb

\* rdb.Set(ctx, k, b, ttl): the entry expires ttl from now
RdbSet(k, raw, ttl, by) ==
    [x \in DOMAIN rdb \cup {k} |->
        IF x = k THEN [raw |-> raw, exp |-> now + ttl, by |-> by, at |-> now]
                 ELSE rdb[x]]

\* rdb.TTL(ctx, k): the remaining time to live; -2 for a missing key
RdbTTL(k) == IF Present(k) THEN rdb[k].exp - now ELSE 0 - 2

\* the outcomes of a backend operation: it succeeds, or (when the
\* environment has faults) fails with a transport error
BackendOutcomes == IF env.faults THEN {TRUE, FALSE} ELSE {TRUE}

(***************************************************************************)
(* Results.                                                                *)
(***************************************************************************)
Result(v, fromCache, err) == [value |-> v, fromCache |-> fromCache, err |-> err]

NoResult == Result(Zero, FALSE, "pending")

\* Handler.Get on key k, given whether the backend answered:
\* the Result and the error ("nil" for none, "redis.Nil" for a miss)
Get(k, up) ==
    IF ~up THEN Result(Zero, FALSE, "redis get")
    ELSE IF ~Present(k) THEN Result(Zero, FALSE, "redis.Nil")
    ELSE IF ~Unmarshal(rdb[k].raw).ok THEN Result(Zero, FALSE, "unmarshal")
    ELSE Result(Unmarshal(rdb[k].raw).v, TRUE, "nil")

\* getFromKey: the decoded value, or any error (a miss included)
getFromKey(k, up) ==
    IF up /\ Present(k) /\ Unmarshal(rdb[k].raw).ok
    THEN [ok |-> TRUE, v |-> Unmarshal(rdb[k].raw).v]
    ELSE [ok |-> FALSE, v |-> Zero]

(***************************************************************************)
(* Cooldown tracking.                                                      *)
(***************************************************************************)
\* a shouldRefreshNow that wants more than the cooldown to have elapsed
shouldRefreshNowStrict(k) ==
    IF cfg.refreshCooldown <= 0 THEN TRUE
    ELSE IF k \notin DOMAIN ledger THEN TRUE
    ELSE now - ledger[k] > cfg.refreshCooldown

shouldRefreshNow(k) ==
    IF cfg.refreshCooldown <= 0 THEN TRUE
    ELSE IF k \notin DOMAIN ledger THEN TRUE
    ELSE now - ledger[k] >= cfg.refreshCooldown

\* a setLastRefreshNow that records nothing
setLastRefreshNever(k) == ledger

\* the ledger after setLastRefreshNow(k)
setLastRefreshNow(k) ==
    IF cfg.refreshCooldown <= 0 THEN ledger
    ELSE [x \in DOMAIN ledger \cup {k} |-> IF x = k THEN now ELSE ledger[x]]

(***************************************************************************)
(* Hit-path refresh decisions.                                             *)
(***************************************************************************)
\* a shouldRefreshAhead that compares the elapsed share of the TTL
shouldRefreshAheadElapsed(up, k, originalTTL, threshold) ==
    IF ~up \/ RdbTTL(k) <= 0 THEN FALSE
    ELSE (originalTTL - RdbTTL(k)) * 100 <= threshold * originalTTL

\* thresholds are in percent: remaining / originalTTL <= threshold
shouldRefreshAhead(up, k, originalTTL, threshold) ==
    IF ~up \/ RdbTTL(k) <= 0 THEN FALSE
    ELSE RdbTTL(k) * 100 <= threshold * originalTTL

\* a shouldProbabilisticRefresh that takes a missing stamp for the time 0
shouldProbabilisticRefreshUnstamped(key, ttl, beta) ==
    LET created == IF createdKeyOf(key) \in DOMAIN ledger
                      THEN ledger[createdKeyOf(key)] ELSE 0
    IN  IF (now - created) * beta <= 0 THEN {FALSE}
        ELSE IF (now - created) * beta >= ttl THEN {TRUE}
        ELSE {TRUE, FALSE}

\* the possible results of shouldProbabilisticRefresh: rand.Float64() is in
\* [0, 1), so the draw is below age/ttl * beta never when that is <= 0,
\* always when it is >= 1, and sometimes in between
shouldProbabilisticRefresh(key, ttl, beta) ==
    IF createdKeyOf(key) \notin DOMAIN ledger THEN {FALSE}
    ELSE IF (now - ledger[createdKeyOf(key)]) * beta <= 0 THEN {FALSE}
    ELSE IF (now - ledger[createdKeyOf(key)]) * beta >= ttl THEN {TRUE}
    ELSE {TRUE, FALSE}

(***************************************************************************)
(* Calls and the goroutines they spawn.                                    *)
(***************************************************************************)
\* co.overrideMissPolicy == nil
NoOverride == 0 - 1

IdleCall ==
    [op |-> "none", pc |-> "idle", policy |-> MissPolicySyncWriteThenReturn,
     ttl |-> 0, nohit |-> FALSE, thr |-> 0, beta |-> 0, arg |-> Zero,
     v |-> Zero, gen |-> "none", res |-> NoResult, path |-> "none", t0 |-> 0,
     key |-> Key]

NoBg == [kind |-> "none", pc |-> "none", v |-> Zero, closed |-> FALSE,
         t0 |-> 0, thr |-> 0, got |-> FALSE, tgen |-> 0]

NoStats == [fgGens |-> 0, bgGens |-> 0, fgWrites |-> 0, bgWrites |-> 0,
            fgLedger |-> 0, bgLedger |-> 0, fgProbes |-> 0]

Calls == DOMAIN call

Spawn(kind, pc, v, thr) ==
    [kind |-> kind, pc |-> pc, v |-> v, closed |-> FALSE, t0 |-> now, thr |-> thr,
     got |-> FALSE, tgen |-> 0]

\* ttl := co.ttl; if ttl <= 0 { ttl = h.config.defaultTTL }
EffectiveTTL(opt) == IF opt <= 0 THEN cfg.defaultTTL ELSE opt

\* missPolicy := h.config.defaultMissPolicy, unless the call overrides it
EffectivePolicy(override) ==
    IF override = NoOverride THEN cfg.defaultMissPolicy ELSE override

\* the argument of a call that passes no WithRefreshAheadThreshold option
NoThreshold == 0 - 1

\* the call option: a threshold outside [0, 1] leaves callOpts at its zero value
WithRefreshAheadThreshold(threshold) ==
    IF threshold >= 0 /\ threshold <= 100 THEN threshold ELSE 0

\* threshold := co.refreshAheadThreshold; if threshold <= 0 { default }
EffectiveThreshold(opt) ==
    LET co == WithRefreshAheadThreshold(opt)
    IN  IF co <= 0 THEN cfg.defaultRefreshAheadThreshold ELSE co

\* beta := co.probabilisticRefreshBeta; if beta <= 0 { default }
EffectiveBeta(opt) == IF opt <= 0 THEN cfg.defaultProbabilisticBeta ELSE opt

\* a caller invokes Set, Get or GetOrRefresh with its options
StartCall(c) ==
    /\ call[c].pc = "idle"
    /\ \E op \in env.ops, override \in env.overrides, ttl \in env.ttlOpts,
          nohit \in env.nohitOpts, thr \in env.thrOpts, beta \in env.betaOpts,
          arg \in env.setVals, key \in env.keys :
          call' = [call EXCEPT ![c] =
                      [IdleCall EXCEPT
                          !.op = op,
                          !.pc = IF op = "Set" THEN "set" ELSE "get",
                          !.policy = IF op = "GetOrRefresh"
                                        THEN EffectivePolicy(override)
                                        ELSE MissPolicySyncWriteThenReturn,
                          !.ttl = EffectiveTTL(ttl),
                          !.nohit = (op = "GetOrRefresh" /\ nohit),
                          !.thr = IF op = "GetOrRefresh" THEN thr ELSE 0,
                          !.beta = IF op = "GetOrRefresh" THEN beta ELSE 0,
                          !.arg = IF op = "Set" THEN arg ELSE Zero,
                          !.key = IF op = "Set" THEN key ELSE Key]]
    /\ UNCHANGED <<locks, km, now, rdb, ledger, cfg, env, bg, stats>>

\* a policy switch in which every policy ends in missSyncWriteThenReturn
MissDispatchFallthrough(c) ==
    [call |-> [call[c] EXCEPT !.path = "miss", !.pc = "lock"],
     bg |-> bg[c], gens |-> 0]

\* GetOrRefresh, step 2: the miss handler chosen by the policy, up to its
\* first access to shared state
MissDispatch(c) ==
    LET p == call[c].policy
        me == [call[c] EXCEPT !.path = "miss"]
    IN  IF p \in {MissPolicySyncWriteThenReturn, MissPolicyRefreshAhead,
                  MissPolicyProbabilisticRefresh}
        THEN [call |-> [me EXCEPT !.pc = "lock"], bg |-> bg[c], gens |-> 0]
        ELSE IF p \in {MissPolicyReturnThenAsyncWrite, MissPolicyBestEffort}
        THEN [call |-> [me EXCEPT !.pc = "gen"], bg |-> bg[c], gens |-> 1]
        ELSE IF p = MissPolicyStaleWhileRevalidate
        THEN [call |-> [me EXCEPT !.pc = "stale"], bg |-> bg[c], gens |-> 0]
        ELSE IF p = MissPolicyFailFast
        THEN [call |-> [me EXCEPT !.pc = "done",
                                  !.res = Result(Zero, FALSE, "failfast")],
              bg |-> bg[c], gens |-> 0]
        ELSE IF p = MissPolicyCooperativeRefresh
        THEN [call |-> [me EXCEPT !.pc = "select", !.t0 = now],
              bg |-> Spawn("coop", "lock", Zero, 0), gens |-> 0]
        ELSE [call |-> [me EXCEPT !.pc = "done",
                                  !.res = Result(Zero, FALSE, "unknown policy")],
              bg |-> bg[c], gens |-> 0]

\* a GetOrRefresh that calls handleHitRefresh even with disableHitRefresh
CallGetIgnoresNohit(c) ==
    /\ call[c].pc = "get"
    /\ \E up \in BackendOutcomes :
          LET r == Get(fullKey(Key), up)
              d == MissDispatch(c)
          IN  IF r.err = "nil"
              THEN /\ call' = [call EXCEPT ![c].res = r, ![c].path = "hit",
                                           ![c].pc = "hitrefresh"]
                   /\ UNCHANGED <<bg, stats>>
              ELSE IF r.err # "redis.Nil"
              THEN /\ call' = [call EXCEPT ![c].res = r, ![c].path = "err",
                                           ![c].pc = "done"]
                   /\ UNCHANGED <<bg, stats>>
              ELSE /\ call' = [call EXCEPT ![c] = d.call]
                   /\ bg' = [bg EXCEPT ![c] = d.bg]
                   /\ stats' = [stats EXCEPT ![c].fgGens = @ + d.gens]
    /\ UNCHANGED <<locks, km, now, rdb, ledger, cfg, env>>

\* Handler.Get, and GetOrRefresh step 1 (the initial read)
\* a GetOrRefresh that takes every failed read for a miss
CallGetErrorIsMiss(c) ==
    /\ call[c].pc = "get"
    /\ \E up \in BackendOutcomes :
          LET r == Get(fullKey(Key), up)
              d == MissDispatch(c)
          IN  IF call[c].op = "Get"
              THEN /\ call' = [call EXCEPT ![c].res = r, ![c].pc = "done"]
                   /\ UNCHANGED <<bg, stats>>
              ELSE IF r.err = "nil"
              THEN /\ call' = [call EXCEPT
                                 ![c].res = r, ![c].path = "hit",
                                 ![c].pc = IF call[c].nohit THEN "done"
                                                            ELSE "hitrefresh"]
                   /\ UNCHANGED <<bg, stats>>
              ELSE /\ call' = [call EXCEPT ![c] = d.call]
                   /\ bg' = [bg EXCEPT ![c] = d.bg]
                   /\ stats' = [stats EXCEPT ![c].fgGens = @ + d.gens]
    /\ UNCHANGED <<locks, km, now, rdb, ledger, cfg, env>>

CallGet(c) ==
    /\ call[c].pc = "get"
    /\ \E up \in BackendOutcomes :
          LET r == Get(fullKey(Key), up)
              d == MissDispatch(c)
          IN  IF call[c].op = "Get"
              THEN /\ call' = [call EXCEPT ![c].res = r, ![c].pc = "done"]
                   /\ UNCHANGED <<bg, stats>>
              ELSE IF r.err = "nil"
              THEN /\ call' = [call EXCEPT
                                 ![c].res = r, ![c].path = "hit",
                                 ![c].pc = IF call[c].nohit THEN "done"
                                                            ELSE "hitrefresh"]
                   /\ UNCHANGED <<bg, stats>>
              ELSE IF r.err # "redis.Nil"
              THEN /\ call' = [call EXCEPT ![c].res = r, ![c].path = "err",
                                           ![c].pc = "done"]
                   /\ UNCHANGED <<bg, stats>>
              ELSE /\ call' = [call EXCEPT ![c] = d.call]
                   /\ bg' = [bg EXCEPT ![c] = d.bg]
                   /\ stats' = [stats EXCEPT ![c].fgGens = @ + d.gens]
    /\ UNCHANGED <<locks, km, now, rdb, ledger, cfg, env>>

\* whether handleHitRefresh spawns a background refresh: the possible answers
handleHitRefresh(c, up) ==
    IF call[c].policy = MissPolicyRefreshAhead
    THEN {shouldRefreshAhead(up, fullKey(Key), call[c].ttl,
                             EffectiveThreshold(call[c].thr))}
    ELSE IF call[c].policy = MissPolicyProbabilisticRefresh
    THEN shouldProbabilisticRefresh(Key, call[c].ttl, EffectiveBeta(call[c].beta))
    ELSE {shouldRefreshNow(fullKey(Key))}

\* a handleHitRefresh that runs the refresh on the caller's path (no `go`)
HitRefreshInline(c) ==
    /\ call[c].pc = "hitrefresh"
    /\ \E up \in IF call[c].policy = MissPolicyRefreshAhead
                    THEN BackendOutcomes ELSE {TRUE} :
          \E spawn \in handleHitRefresh(c, up) :
             stats' = [stats EXCEPT ![c].fgGens = IF spawn THEN @ + 1 ELSE @]
    /\ call' = [call EXCEPT ![c].pc = "hitret"]
    /\ UNCHANGED <<locks, km, now, rdb, ledger, cfg, env, bg>>

\* a handleHitRefresh whose failed TTL probe becomes the caller's error
HitRefreshPropagates(c) ==
    /\ call[c].pc = "hitrefresh"
    /\ \E up \in IF call[c].policy = MissPolicyRefreshAhead
                    THEN BackendOutcomes ELSE {TRUE} :
          /\ \E spawn \in handleHitRefresh(c, up) :
                bg' = [bg EXCEPT ![c] =
                          IF spawn THEN Spawn("refresh", "trylock", Zero, 0) ELSE @]
          /\ call' = [call EXCEPT ![c].pc = "hitret",
                                  ![c].res = IF up THEN @
                                             ELSE Result(Zero, FALSE, "redis ttl")]
    /\ UNCHANGED <<locks, km, now, rdb, ledger, cfg, env, stats>>

\* GetOrRefresh on a hit: h.handleHitRefresh(...), which may `go` a refresh;
\* under RefreshAhead it first calls rdb.TTL (shouldRefreshAhead), on the
\* caller's goroutine
HitRefresh(c) ==
    /\ call[c].pc = "hitrefresh"
    /\ \E up \in IF call[c].policy = MissPolicyRefreshAhead
                    THEN BackendOutcomes ELSE {TRUE} :
          \E spawn \in handleHitRefresh(c, up) :
             bg' = [bg EXCEPT ![c] =
                       IF spawn THEN Spawn("refresh", "trylock", Zero, 0) ELSE @]
    /\ call' = [call EXCEPT ![c].pc = "hitret"]
    /\ stats' = [stats EXCEPT ![c].fgProbes =
                   IF call[c].policy = MissPolicyRefreshAhead THEN @ + 1 ELSE @]
    /\ UNCHANGED <<locks, km, now, rdb, ledger, cfg, env>>

\* GetOrRefresh on a hit: return res, nil
HitReturn(c) ==
    /\ call[c].pc = "hitret"
    /\ call' = [call EXCEPT ![c].pc = "done"]
    /\ UNCHANGED <<locks, km, now, rdb, ledger, cfg, env, bg, stats>>

(***************************************************************************)
(* Miss handlers.                                                          *)
(***************************************************************************)
\* a missStaleWhileRevalidate that regenerates although a stale copy was read
StaleGetRegenerates(c) ==
    /\ call[c].pc = "stale"
    /\ call' = [call EXCEPT ![c].pc = "lock"]
    /\ UNCHANGED <<locks, km, now, rdb, ledger, cfg, env, bg, stats>>

\* missStaleWhileRevalidate: read the stale copy; serve it and `go` a stale
\* refresh, or fall back to missSyncWriteThenReturn
StaleGet(c) ==
    /\ call[c].pc = "stale"
    /\ \E up \in BackendOutcomes :
          LET r == getFromKey(staleKeyOf(Key), up)
          IN  IF r.ok
              THEN /\ call' = [call EXCEPT ![c].res = Result(r.v, TRUE, "nil"),
                                           ![c].pc = "done"]
                   /\ bg' = [bg EXCEPT ![c] = Spawn("stale", "trylock", Zero, 0)]
              ELSE /\ call' = [call EXCEPT ![c].pc = "lock"]
                   /\ UNCHANGED bg
    /\ UNCHANGED <<locks, km, now, rdb, ledger, cfg, env, stats>>

\* missCooperativeRefresh: case <-lockCtx.Done(): generate directly
\* a missCooperativeRefresh that falls back to the synchronous path on timeout
CoopTimeoutThenSync(c) ==
    /\ call[c].pc = "select"
    /\ now - call[c].t0 >= cfg.cooperativeTimeout
    /\ call' = [call EXCEPT ![c].pc = "lock", ![c].path = "timeout"]
    /\ UNCHANGED <<locks, km, now, rdb, ledger, cfg, env, bg, stats>>

CoopTimeout(c) ==
    /\ call[c].pc = "select"
    /\ now - call[c].t0 >= cfg.cooperativeTimeout
    /\ call' = [call EXCEPT ![c].pc = "gendirect", ![c].path = "timeout"]
    /\ stats' = [stats EXCEPT ![c].fgGens = @ + 1]
    /\ UNCHANGED <<locks, km, now, rdb, ledger, cfg, env, bg>>

\* missCooperativeRefresh: case <-done: go on with missSyncWriteThenReturn
CoopDone(c) ==
    /\ call[c].pc = "select"
    /\ bg[c].closed
    /\ call' = [call EXCEPT ![c].pc = "lock"]
    /\ UNCHANGED <<locks, km, now, rdb, ledger, cfg, env, bg, stats>>

\* missSyncWriteThenReturn: unlock := h.localLocks.Lock(fullKey)
CallLock(c) ==
    /\ call[c].pc = "lock"
    /\ CanSend(locks, fullKey(Key))
    /\ locks' = Send(locks, fullKey(Key))
    /\ call' = [call EXCEPT ![c].pc = "dcheck"]
    /\ UNCHANGED <<km, now, rdb, ledger, cfg, env, bg, stats>>

\* missSyncWriteThenReturn without its double-check: generate whatever is cached
DoubleCheckSkipped(c) ==
    /\ call[c].pc = "dcheck"
    /\ call' = [call EXCEPT ![c].pc = "gen"]
    /\ stats' = [stats EXCEPT ![c].fgGens = @ + 1]
    /\ UNCHANGED <<locks, km, now, rdb, ledger, cfg, env, bg>>

\* missSyncWriteThenReturn: the double-check read under the lock
\* a double-check that reports the value it read as not from the cache
DoubleCheckMarksFresh(c) ==
    /\ call[c].pc = "dcheck"
    /\ \E up \in BackendOutcomes :
          LET r == Get(fullKey(Key), up)
          IN  IF r.err = "redis.Nil"
              THEN /\ call' = [call EXCEPT ![c].pc = "gen"]
                   /\ stats' = [stats EXCEPT ![c].fgGens = @ + 1]
              ELSE /\ call' = [call EXCEPT ![c].res = [r EXCEPT !.fromCache = FALSE],
                                           ![c].pc = "unlock"]
                   /\ UNCHANGED stats
    /\ UNCHANGED <<locks, km, now, rdb, ledger, cfg, env, bg>>

DoubleCheck(c) ==
    /\ call[c].pc = "dcheck"
    /\ \E up \in BackendOutcomes :
          LET r == Get(fullKey(Key), up)
          IN  IF r.err = "redis.Nil"
              THEN /\ call' = [call EXCEPT ![c].pc = "gen"]
                   /\ stats' = [stats EXCEPT ![c].fgGens = @ + 1]
              ELSE /\ call' = [call EXCEPT ![c].res = r, ![c].pc = "unlock"]
                   /\ UNCHANGED stats
    /\ UNCHANGED <<locks, km, now, rdb, ledger, cfg, env, bg>>

\* a missSyncWriteThenReturn that goes on to h.Set after a failed generator
GenReturnWritesOnError(c) ==
    /\ call[c].pc \in {"gen", "gendirect"}
    /\ \E out \in env.genOut :
          LET p == call[c].policy
              failed == Result(Zero, FALSE, "generator")
              fresh == Result(out.v, FALSE, "nil")
              me == [call[c] EXCEPT !.gen = IF out.ok THEN "ok" ELSE "err",
                                    !.v = IF out.ok THEN out.v ELSE Zero]
          IN  IF call[c].pc = "gendirect"
              THEN /\ call' = [call EXCEPT ![c] =
                                 [me EXCEPT !.pc = "done",
                                            !.res = IF out.ok THEN fresh ELSE failed]]
                   /\ UNCHANGED bg
              ELSE IF p = MissPolicyReturnThenAsyncWrite
              THEN /\ call' = [call EXCEPT ![c] =
                                 [me EXCEPT !.pc = "done",
                                            !.res = IF out.ok THEN fresh ELSE failed]]
                   /\ bg' = [bg EXCEPT ![c] =
                               IF out.ok
                                  THEN Spawn("misswrite", "trylock", out.v, 0)
                                  ELSE @]
              ELSE IF p = MissPolicyBestEffort
              THEN /\ call' = [call EXCEPT ![c] =
                                 [me EXCEPT !.pc = IF out.ok THEN "set" ELSE "done",
                                            !.res = IF out.ok THEN @
                                                    ELSE Result(Zero, FALSE, "nil")]]
                   /\ UNCHANGED bg
              ELSE /\ call' = [call EXCEPT ![c] =
                                 [me EXCEPT !.pc = "set"]]
                   /\ UNCHANGED bg
    /\ UNCHANGED <<locks, km, now, rdb, ledger, cfg, env, stats>>

\* the generator called on the caller's path returns
GenReturn(c) ==
    /\ call[c].pc \in {"gen", "gendirect"}
    /\ \E out \in env.genOut :
          LET p == call[c].policy
              failed == Result(Zero, FALSE, "generator")
              fresh == Result(out.v, FALSE, "nil")
              me == [call[c] EXCEPT !.gen = IF out.ok THEN "ok" ELSE "err",
                                    !.v = IF out.ok THEN out.v ELSE Zero]
          IN  IF call[c].pc = "gendirect"
              THEN /\ call' = [call EXCEPT ![c] =
                                 [me EXCEPT !.pc = "done",
                                            !.res = IF out.ok THEN fresh ELSE failed]]
                   /\ UNCHANGED bg
              ELSE IF p = MissPolicyReturnThenAsyncWrite
              THEN /\ call' = [call EXCEPT ![c] =
                                 [me EXCEPT !.pc = "done",
                                            !.res = IF out.ok THEN fresh ELSE failed]]
                   /\ bg' = [bg EXCEPT ![c] =
                               IF out.ok
                                  THEN Spawn("misswrite", "trylock", out.v, 0)
                                  ELSE @]
              ELSE IF p = MissPolicyBestEffort
              THEN /\ call' = [call EXCEPT ![c] =
                                 [me EXCEPT !.pc = IF out.ok THEN "set" ELSE "done",
                                            !.res = IF out.ok THEN @
                                                    ELSE Result(Zero, FALSE, "nil")]]
                   /\ UNCHANGED bg
              ELSE /\ call' = [call EXCEPT ![c] =
                                 [me EXCEPT !.pc = IF out.ok THEN "set" ELSE "unlock",
                                            !.res = IF out.ok THEN @ ELSE failed]]
                   /\ UNCHANGED bg
    /\ UNCHANGED <<locks, km, now, rdb, ledger, cfg, env, stats>>

\* a missBestEffort that returns the error of a failed cache write
\* a sync-miss handler that returns the generated value when its write failed
AfterSetLenient(c, err) ==
    IF call[c].op = "Set"
    THEN [call[c] EXCEPT !.pc = "done", !.res = Result(Zero, FALSE, err), !.t0 = now]
    ELSE [call[c] EXCEPT !.pc = IF call[c].policy = MissPolicyBestEffort
                                   THEN "done" ELSE "unlock",
                         !.t0 = now,
                         !.res = Result(call[c].v, FALSE, "nil")]

AfterSetStrict(c, err) ==
    [call[c] EXCEPT !.pc = IF call[c].op = "Set" \/ call[c].policy = MissPolicyBestEffort
                              THEN "done" ELSE "unlock",
                    !.res = IF err = "nil" /\ call[c].op # "Set"
                               THEN Result(call[c].v, FALSE, "nil")
                               ELSE Result(Zero, FALSE, err)]

\* what a caller does once its h.Set has returned err ("nil" for success):
\* Set returns err; missBestEffort returns the value whatever err is;
\* missSyncWriteThenReturn returns the value or the error, then unlocks
AfterSet(c, err) ==
    IF call[c].op = "Set"
    THEN [call[c] EXCEPT !.pc = "done", !.res = Result(Zero, FALSE, err), !.t0 = now]
    ELSE IF call[c].policy = MissPolicyBestEffort
    THEN [call[c] EXCEPT !.pc = "done", !.res = Result(call[c].v, FALSE, "nil"),
                         !.t0 = now]
    ELSE [call[c] EXCEPT !.pc = "unlock", !.t0 = now,
                         !.res = IF err = "nil"
                                    THEN Result(call[c].v, FALSE, "nil")
                                    ELSE Result(Zero, FALSE, err)]

\* a Handler.Set that does not call setLastRefreshNow
CallSetNoLedger(c) ==
    /\ call[c].pc = "set"
    /\ \E up \in BackendOutcomes :
          LET value == IF call[c].op = "Set" THEN call[c].arg ELSE call[c].v
              m == Marshal(value)
              by == [c |-> c, role |-> IF call[c].op = "Set" THEN "Set" ELSE "miss"]
          IN  IF ~up
              THEN /\ call' = [call EXCEPT ![c] = AfterSet(c, "redis set")]
                   /\ UNCHANGED <<rdb, stats>>
              ELSE /\ rdb' = RdbSet(fullKey(call[c].key), m.raw, call[c].ttl, by)
                   /\ stats' = [stats EXCEPT ![c].fgWrites = @ + 1]
                   /\ call' = [call EXCEPT ![c] = AfterSet(c, "nil")]
    /\ UNCHANGED <<locks, km, now, ledger, cfg, env, bg>>

\* a Handler.Set that stamps the ledger although rdb.Set failed
CallSetStampsOnError(c) ==
    /\ call[c].pc = "set"
    /\ \E up \in BackendOutcomes :
          LET value == IF call[c].op = "Set" THEN call[c].arg ELSE call[c].v
              m == Marshal(value)
              by == [c |-> c, role |-> IF call[c].op = "Set" THEN "Set" ELSE "miss"]
          IN  IF ~m.ok
              THEN /\ call' = [call EXCEPT ![c] = AfterSet(c, "marshal")]
                   /\ UNCHANGED <<rdb, stats>>
              ELSE IF ~up
              THEN /\ call' = [call EXCEPT ![c].pc = "ledger"]
                   /\ UNCHANGED <<rdb, stats>>
              ELSE /\ rdb' = RdbSet(fullKey(call[c].key), m.raw, call[c].ttl, by)
                   /\ stats' = [stats EXCEPT ![c].fgWrites = @ + 1]
                   /\ call' = [call EXCEPT ![c] =
                                 IF cfg.refreshCooldown <= 0
                                    THEN AfterSet(c, "nil")
                                    ELSE [@ EXCEPT !.pc = "ledger"]]
    /\ UNCHANGED <<locks, km, now, ledger, cfg, env, bg>>

\* Handler.Set on the caller's path: json.Marshal, then rdb.Set
CallSet(c) ==
    /\ call[c].pc = "set"
    /\ \E up \in BackendOutcomes :
          LET value == IF call[c].op = "Set" THEN call[c].arg ELSE call[c].v
              m == Marshal(value)
              by == [c |-> c, role |-> IF call[c].op = "Set" THEN "Set" ELSE "miss"]
          IN  IF ~m.ok
              THEN /\ call' = [call EXCEPT ![c] = AfterSet(c, "marshal")]
                   /\ UNCHANGED <<rdb, stats>>
              ELSE IF ~up
              THEN /\ call' = [call EXCEPT ![c] = AfterSet(c, "redis set")]
                   /\ UNCHANGED <<rdb, stats>>
              ELSE /\ rdb' = RdbSet(fullKey(call[c].key), m.raw, call[c].ttl, by)
                   /\ stats' = [stats EXCEPT ![c].fgWrites = @ + 1]
                   /\ call' = [call EXCEPT ![c] =
                                 IF cfg.refreshCooldown <= 0
                                    THEN AfterSet(c, "nil")
                                    ELSE [@ EXCEPT !.pc = "ledger"]]
    /\ UNCHANGED <<locks, km, now, ledger, cfg, env, bg>>

\* Handler.Set on the caller's path: h.setLastRefreshNow(k), with a cooldown
CallLedger(c) ==
    /\ call[c].pc = "ledger"
    /\ ledger' = setLastRefreshNow(fullKey(call[c].key))
    /\ stats' = [stats EXCEPT ![c].fgLedger = @ + 1]
    /\ call' = [call EXCEPT ![c] = AfterSet(c, "nil")]
    /\ UNCHANGED <<locks, km, now, rdb, cfg, env, bg>>

\* a sync-miss handler that schedules a refresh after every successful miss
CallUnlockAlwaysSchedules(c) ==
    /\ call[c].pc = "unlock"
    /\ CanRecv(locks, fullKey(Key))
    /\ locks' = Recv(locks, fullKey(Key))
    /\ call' = [call EXCEPT ![c].pc = "done"]
    /\ bg' = [bg EXCEPT ![c] =
                IF call[c].res.err # "nil" \/ call[c].gen # "ok" THEN @
                ELSE Spawn("sched", "sleep", Zero, EffectiveThreshold(call[c].thr))]
    /\ UNCHANGED <<km, now, rdb, ledger, cfg, env, stats>>

\* missSyncWriteThenReturn returns: the deferred unlock runs; then
\* missRefreshAhead and missProbabilisticRefresh `go` their task on success
CallUnlock(c) ==
    /\ call[c].pc = "unlock"
    /\ CanRecv(locks, fullKey(Key))
    /\ locks' = Recv(locks, fullKey(Key))
    /\ call' = [call EXCEPT ![c].pc = "done"]
    /\ bg' = [bg EXCEPT ![c] =
                IF call[c].res.err # "nil" THEN @
                ELSE IF call[c].policy = MissPolicyRefreshAhead
                THEN Spawn("sched", "sleep", Zero, EffectiveThreshold(call[c].thr))
                ELSE IF call[c].policy = MissPolicyProbabilisticRefresh
                THEN Spawn("enable", "created", Zero, 0)
                ELSE @]
    /\ UNCHANGED <<km, now, rdb, ledger, cfg, env, stats>>

(***************************************************************************)
(* Background tasks.  bg[c] is the goroutine call c spawned.               *)
(***************************************************************************)
\* a background task that goes on when TryLock did not acquire
BgTryLockIgnoresOk(c) ==
    /\ bg[c].pc = "trylock"
    /\ locks' = IF CanSend(locks, fullKey(Key)) THEN Send(locks, fullKey(Key))
                                                ELSE ch(locks, fullKey(Key))
    /\ bg' = [bg EXCEPT ![c].pc =
                IF bg[c].kind = "misswrite" THEN "exists"
                ELSE IF bg[c].kind = "stale" THEN "gen"
                ELSE IF cfg.refreshCooldown <= 0 THEN "gen"
                ELSE "should"]
    /\ stats' = [stats EXCEPT ![c].bgGens =
                   IF \/ bg[c].kind = "stale"
                      \/ bg[c].kind = "refresh" /\ cfg.refreshCooldown <= 0
                      THEN @ + 1 ELSE @]
    /\ UNCHANGED <<km, now, rdb, ledger, cfg, env, call>>

\* spawnBackgroundMissWrite / spawnBackgroundRefresh / spawnStaleRefresh:
\* unlock, ok := h.localLocks.TryLock(fullKey); if !ok { return }
BgTryLock(c) ==
    /\ bg[c].pc = "trylock"
    /\ IF CanSend(locks, fullKey(Key))
          THEN /\ locks' = Send(locks, fullKey(Key))
               /\ bg' = [bg EXCEPT ![c].got = TRUE, ![c].tgen = now,
                                   ![c].pc =
                           IF bg[c].kind = "misswrite" THEN "exists"
                           ELSE IF bg[c].kind = "stale" THEN "gen"
                           ELSE IF cfg.refreshCooldown <= 0 THEN "gen"
                           ELSE "should"]
               /\ stats' = [stats EXCEPT ![c].bgGens =
                              IF \/ bg[c].kind = "stale"
                                 \/ bg[c].kind = "refresh" /\ cfg.refreshCooldown <= 0
                                 THEN @ + 1 ELSE @]
          ELSE /\ locks' = ch(locks, fullKey(Key))
               /\ bg' = [bg EXCEPT ![c].pc = "done"]
               /\ UNCHANGED stats
    /\ UNCHANGED <<km, now, rdb, ledger, cfg, env, call>>

\* a spawnBackgroundMissWrite that writes only when the key is present
BgExistsInverted(c) ==
    /\ bg[c].pc = "exists"
    /\ bg' = [bg EXCEPT ![c] =
                 IF bg[c].kind = "misswrite"
                    THEN [@ EXCEPT !.pc = IF Present(fullKey(Key))
                                             THEN "set" ELSE "unlock"]
                    ELSE IF ~Present(fullKey(Key))
                            THEN [@ EXCEPT !.pc = "done"]
                            ELSE [@ EXCEPT !.kind = "refresh", !.pc = "trylock"]]
    /\ UNCHANGED <<locks, km, now, rdb, ledger, cfg, env, call, stats>>

\* rdb.Exists: spawnBackgroundMissWrite goes on when the key is absent,
\* scheduleRefreshAhead goes on (into spawnBackgroundRefresh) when it exists
BgExists(c) ==
    /\ bg[c].pc = "exists"
    /\ \E up \in BackendOutcomes :
          bg' = [bg EXCEPT ![c] =
                    IF bg[c].kind = "misswrite"
                       THEN [@ EXCEPT !.pc = IF ~up \/ Present(fullKey(Key))
                                                THEN "unlock" ELSE "set"]
                       ELSE IF ~up \/ ~Present(fullKey(Key))
                               THEN [@ EXCEPT !.pc = "done"]
                               ELSE [@ EXCEPT !.kind = "refresh", !.pc = "trylock"]]
    /\ UNCHANGED <<locks, km, now, rdb, ledger, cfg, env, call, stats>>

\* a spawnBackgroundRefresh whose cooldown exit skips the deferred unlock
BgShouldExitKeepsLock(c) ==
    /\ bg[c].pc = "should"
    /\ IF shouldRefreshNow(fullKey(Key))
          THEN /\ bg' = [bg EXCEPT ![c].pc = "gen", ![c].tgen = now]
               /\ stats' = [stats EXCEPT ![c].bgGens = @ + 1]
          ELSE /\ bg' = [bg EXCEPT ![c].pc = "done"]
               /\ UNCHANGED stats
    /\ UNCHANGED <<locks, km, now, rdb, ledger, cfg, env, call>>

\* spawnBackgroundRefresh with a cooldown: if !h.shouldRefreshNow(fullKey) { return }
BgShould(c) ==
    /\ bg[c].pc = "should"
    /\ IF shouldRefreshNow(fullKey(Key))
          THEN /\ bg' = [bg EXCEPT ![c].pc = "gen", ![c].tgen = now]
               /\ stats' = [stats EXCEPT ![c].bgGens = @ + 1]
          ELSE /\ bg' = [bg EXCEPT ![c].pc = "unlock"]
               /\ UNCHANGED stats
    /\ UNCHANGED <<locks, km, now, rdb, ledger, cfg, env, call>>

\* the generator called by a background task returns
BgGen(c) ==
    /\ bg[c].pc = "gen"
    /\ \E out \in env.genOut :
          bg' = [bg EXCEPT ![c].pc = IF out.ok THEN "set" ELSE "unlock",
                           ![c].v = IF out.ok THEN out.v ELSE Zero]
    /\ UNCHANGED <<locks, km, now, rdb, ledger, cfg, env, call, stats>>

\* a spawnStaleRefresh that does not update the stale key
BgAfterSetNoStaleCopy(c) == "unlock"

\* where a background task goes once its h.Set has returned (errors swallowed)
BgAfterSet(c) == IF bg[c].kind = "stale" THEN "setstale" ELSE "unlock"

\* a background h.Set that leaves an entry alone that was written after the
\* task's generator was invoked
BgSetKeepsNewer(c) ==
    /\ bg[c].pc = "set"
    /\ \E up \in BackendOutcomes :
          LET m == Marshal(bg[c].v)
              newer == /\ Present(fullKey(Key))
                       /\ rdb[fullKey(Key)].by # External
                       /\ rdb[fullKey(Key)].at >= bg[c].tgen
          IN  IF m.ok /\ up /\ ~newer
              THEN /\ rdb' = RdbSet(fullKey(Key), m.raw, call[c].ttl,
                                    [c |-> c, role |-> bg[c].kind])
                   /\ stats' = [stats EXCEPT ![c].bgWrites = @ + 1]
                   /\ bg' = [bg EXCEPT ![c].pc =
                               IF cfg.refreshCooldown <= 0 THEN BgAfterSet(c)
                                                           ELSE "ledger"]
              ELSE /\ bg' = [bg EXCEPT ![c].pc = BgAfterSet(c)]
                   /\ UNCHANGED <<rdb, stats>>
    /\ UNCHANGED <<locks, km, now, ledger, cfg, env, call>>

\* _ = h.Set(ctx, key, v, WithTTL(ttl)) in a background task
BgSet(c) ==
    /\ bg[c].pc = "set"
    /\ \E up \in BackendOutcomes :
          LET m == Marshal(bg[c].v)
          IN  IF m.ok /\ up
              THEN /\ rdb' = RdbSet(fullKey(Key), m.raw, call[c].ttl,
                                    [c |-> c, role |-> bg[c].kind])
                   /\ stats' = [stats EXCEPT ![c].bgWrites = @ + 1]
                   /\ bg' = [bg EXCEPT ![c].pc =
                               IF cfg.refreshCooldown <= 0 THEN BgAfterSet(c)
                                                           ELSE "ledger"]
              ELSE /\ bg' = [bg EXCEPT ![c].pc = BgAfterSet(c)]
                   /\ UNCHANGED <<rdb, stats>>
    /\ UNCHANGED <<locks, km, now, ledger, cfg, env, call>>

\* h.setLastRefreshNow(k) at the end of a background task's h.Set
BgLedger(c) ==
    /\ bg[c].pc = "ledger"
    /\ ledger' = setLastRefreshNow(fullKey(Key))
    /\ stats' = [stats EXCEPT ![c].bgLedger = @ + 1]
    /\ bg' = [bg EXCEPT ![c].pc = BgAfterSet(c)]
    /\ UNCHANGED <<locks, km, now, rdb, cfg, env, call>>

\* spawnStaleRefresh: _ = h.setToKey(ctx, staleKey, v, h.config.staleDataTTL)
BgSetStale(c) ==
    /\ bg[c].pc = "setstale"
    /\ \E up \in BackendOutcomes :
          LET m == Marshal(bg[c].v)
          IN  IF m.ok /\ up
              THEN /\ rdb' = RdbSet(staleKeyOf(Key), m.raw, cfg.staleDataTTL,
                                    [c |-> c, role |-> "stalecopy"])
                   /\ stats' = [stats EXCEPT ![c].bgWrites = @ + 1]
              ELSE UNCHANGED <<rdb, stats>>
    /\ bg' = [bg EXCEPT ![c].pc = "unlock"]
    /\ UNCHANGED <<locks, km, now, ledger, cfg, env, call>>

\* the deferred unlock of a background task
BgUnlock(c) ==
    /\ bg[c].pc = "unlock"
    /\ CanRecv(locks, fullKey(Key))
    /\ locks' = Recv(locks, fullKey(Key))
    /\ bg' = [bg EXCEPT ![c].pc = "done"]
    /\ UNCHANGED <<km, now, rdb, ledger, cfg, env, call, stats>>

\* scheduleRefreshAhead: time.Sleep(ttl * (1 - threshold)) is over
BgSleep(c) ==
    /\ bg[c].pc = "sleep"
    /\ (now - bg[c].t0) * 100 >= call[c].ttl * (100 - bg[c].thr)
    /\ bg' = [bg EXCEPT ![c].pc = "exists"]
    /\ UNCHANGED <<locks, km, now, rdb, ledger, cfg, env, call, stats>>

\* enableProbabilisticRefresh: lastRefreshByKey[fullKey+"@created"] = time.Now()
BgCreated(c) ==
    /\ bg[c].pc = "created"
    /\ ledger' = [x \in DOMAIN ledger \cup {createdKeyOf(Key)} |->
                     IF x = createdKeyOf(Key) THEN now ELSE ledger[x]]
    /\ stats' = [stats EXCEPT ![c].bgLedger = @ + 1]
    /\ bg' = [bg EXCEPT ![c].pc = "done"]
    /\ UNCHANGED <<locks, km, now, rdb, cfg, env, call>>

\* the goroutine of missCooperativeRefresh: unlock := h.localLocks.Lock(fullKey)
BgCoopLock(c) ==
    /\ bg[c].pc = "lock"
    /\ CanSend(locks, fullKey(Key))
    /\ locks' = Send(locks, fullKey(Key))
    /\ bg' = [bg EXCEPT ![c].pc = "close"]
    /\ UNCHANGED <<km, now, rdb, ledger, cfg, env, call, stats>>

\* a lock helper that closes done and ends without releasing the key
BgCoopCloseKeepsLock(c) ==
    /\ bg[c].pc = "close"
    /\ bg' = [bg EXCEPT ![c].pc = "done", ![c].closed = TRUE]
    /\ UNCHANGED <<locks, km, now, rdb, ledger, cfg, env, call, stats>>

\* the goroutine of missCooperativeRefresh: close(done); the unlock follows
BgCoopClose(c) ==
    /\ bg[c].pc = "close"
    /\ bg' = [bg EXCEPT ![c].pc = "unlock", ![c].closed = TRUE]
    /\ UNCHANGED <<locks, km, now, rdb, ledger, cfg, env, call, stats>>

(***************************************************************************)
(* Time.  An entry whose expiry time has come is gone from the backend.    *)
(***************************************************************************)
Tick ==
    /\ now < MaxTime
    /\ now' = now + 1
    /\ rdb' = [k \in {x \in DOMAIN rdb : rdb[x].exp > now + 1} |-> rdb[k]]
    /\ UNCHANGED <<locks, km, ledger, cfg, env, call, bg, stats>>

(***************************************************************************)
(* Configurations.  New(rdb, opts...) starts from these defaults; times    *)
(* are in clock ticks.                                                     *)
(***************************************************************************)
DefaultConfig ==
    [prefix |-> "",
     defaultTTL |-> 2,
     refreshCooldown |-> 0,
     defaultMissPolicy |-> MissPolicySyncWriteThenReturn,
     staleDataTTL |-> 4,
     defaultRefreshAheadThreshold |-> 20,
     defaultProbabilisticBeta |-> 1,
     cooperativeTimeout |-> 1]

\* generator outcomes
GenOk(v) == [ok |-> TRUE, v |-> v]
GenErr == [ok |-> FALSE, v |-> Zero]

\* callers that only call GetOrRefresh with no option, on a reliable backend,
\* with a generator that always returns X
QuietEnv ==
    [faults |-> FALSE, genOut |-> {GenOk(ValX)}, ops |-> {"GetOrRefresh"},
     overrides |-> {NoOverride}, ttlOpts |-> {0}, nohitOpts |-> {FALSE},
     thrOpts |-> {0}, betaOpts |-> {0}, setVals |-> {Zero},
     keys |-> {Key}]

NoMap == [x \in {} |-> 0]

(***************************************************************************)
(* SpecLock: tasks using one KeyedMutex directly, in any interleaving.     *)
(***************************************************************************)
InitLock ==
    /\ locks = NoMap
    /\ km = [t \in LockTasks |-> KmIdle]
    /\ now = 0
    /\ rdb = NoMap
    /\ ledger = NoMap
    /\ cfg = DefaultConfig
    /\ env = QuietEnv
    /\ call = NoMap
    /\ bg = NoMap
    /\ stats = NoMap

NextLock ==
    \E t \in LockTasks :
        \/ TaskCall(t)
        \/ TaskLock(t)
        \/ TaskTryLock(t)
        \/ TaskUnlock(t)
        \/ TaskNoop(t)

SpecLock == InitLock /\ [][NextLock]_vars

\* the tasks that hold the lock of key k: they acquired it and have not
\* yet invoked their releaser
LockHolders(k) == {t \in DOMAIN km : km[t].pc = "held" /\ km[t].key = k}

\* C1: for every key, at every moment, at most one task holds the key's lock,
\* whatever the interleaving of Lock, TryLock and releaser calls
C1_MutualExclusion == \A k \in LockKeys : Cardinality(LockHolders(k)) <= 1

\* a key is held while a second task is blocked in Lock on it and a third
\* has been refused by TryLock
C1_Witness ==
    \E k \in LockKeys :
        \E t1, t2, t3 \in DOMAIN km :
            /\ km[t1].pc = "held" /\ km[t1].key = k
            /\ km[t2].pc = "Lock" /\ km[t2].key = k
            /\ km[t3].pc = "refused" /\ km[t3].key = k

(***************************************************************************)
(* Counting over the calls.                                                *)
(***************************************************************************)
RECURSIVE SumFgGens(_)
SumFgGens(S) ==
    IF S = {} THEN 0
    ELSE LET c == CHOOSE x \in S : TRUE
         IN  stats[c].fgGens + SumFgGens(S \ {c})

RECURSIVE SumBgGens(_)
SumBgGens(S) ==
    IF S = {} THEN 0
    ELSE LET c == CHOOSE x \in S : TRUE
         IN  stats[c].bgGens + SumBgGens(S \ {c})

\* all generator invocations so far
TotalGens == SumFgGens(Calls) + SumBgGens(Calls)

AllReturned == \A c \in Calls : call[c].pc = "done"

(***************************************************************************)
(* SpecSync: NumSyncCalls concurrent GetOrRefresh calls on one missing key *)
(* under SyncWriteThenReturn; the generator always returns v, the backend  *)
(* works, nothing expires.  A caller may pass WithoutBackgroundRefresh.    *)
(***************************************************************************)
InitHandler(n, config, environment, backend) ==
    /\ locks = NoMap
    /\ km = NoMap
    /\ now = 0
    /\ rdb = backend
    /\ ledger = NoMap
    /\ cfg = config
    /\ env = environment
    /\ call = [c \in 1..n |-> IdleCall]
    /\ bg = [c \in 1..n |-> NoBg]
    /\ stats = [c \in 1..n |-> NoStats]

InitSync ==
    \E v \in {ValX, ValBad} :
        InitHandler(NumSyncCalls,
                    [DefaultConfig EXCEPT !.prefix = "t"],
                    [QuietEnv EXCEPT !.nohitOpts = {FALSE, TRUE},
                                     !.genOut = {GenOk(v)}],
                    NoMap)

NextSync ==
    \E c \in 1..NumSyncCalls :
        \/ StartCall(c)
        \/ CallGet(c)
        \/ HitRefresh(c)
        \/ HitReturn(c)
        \/ CallLock(c)
        \/ DoubleCheck(c)
        \/ GenReturn(c)
        \/ CallSet(c)
        \/ CallUnlock(c)
        \/ BgTryLock(c)
        \/ BgGen(c)
        \/ BgSet(c)
        \/ BgUnlock(c)

SpecSync == InitSync /\ [][NextSync]_vars

\* the value v the generator of SpecSync always returns
Generated == (CHOOSE out \in env.genOut : TRUE).v

\* C2 as claimed: the generator is invoked exactly once in total, and every
\* call returns the generator's value v
C2_ExactlyOnceInTotal ==
    /\ TotalGens <= 1
    /\ AllReturned =>
          /\ TotalGens = 1
          /\ \A c \in Calls : call[c].res = Result(Generated, call[c].res.fromCache, "nil")

\* C2 as amended: exactly one of the callers invokes the generator on its
\* (miss) path; that caller returns v and every other call returns v as
\* read back from the cache (v itself when JSON round-trips v); the only
\* other invocations are by background refreshes of calls that hit the
\* written value, so with hit-refresh disabled on every call the total is one
C2_SingleFlight ==
    /\ SumFgGens(Calls) <= 1
    /\ \A c \in Calls : call[c].nohit \/ call[c].path # "hit" => stats[c].bgGens = 0
    /\ AllReturned =>
          /\ SumFgGens(Calls) = 1
          /\ \A c \in Calls :
                call[c].res = IF stats[c].fgGens = 1
                                 THEN Result(Generated, FALSE, "nil")
                                 ELSE Result(Coerce(Generated), TRUE, "nil")
          /\ (\A c \in Calls : call[c].nohit) => TotalGens = 1

\* all the callers missed on their first read, one of them generated, the
\* others found its value in the double-check, and all have returned
C2_Witness ==
    /\ AllReturned
    /\ \A c \in Calls : call[c].path = "miss"
    /\ TotalGens = 1
    /\ Cardinality({c \in Calls : call[c].res.fromCache}) >= 2

(***************************************************************************)
(* Spec: NumCalls concurrent calls of GetOrRefresh under any policy        *)
(* on one key, with the default cooldown 0 and a cooperative timeout that  *)
(* can fire at once.  The backend may fail, the generator may fail or      *)
(* return Y; nothing expires.  The key (X, or bytes that do not decode) or *)
(* its stale companion (X) may be preloaded.                               *)
(***************************************************************************)
Preloaded(raw) == [raw |-> raw, exp |-> 2, by |-> External, at |-> 0]

Backends ==
    {NoMap,
     "t:k" :> Preloaded(Marshal(ValX).raw),
     "t:k" :> Preloaded(Garbage),
     "t:k:stale" :> Preloaded(Marshal(ValX).raw)}

AnyEnv ==
    [faults |-> TRUE, genOut |-> {GenErr, GenOk(ValY)},
     ops |-> {"GetOrRefresh"},
     overrides |-> {NoOverride} \cup DefinedPolicies \cup {UnknownPolicy},
     ttlOpts |-> {0}, nohitOpts |-> {FALSE, TRUE},
     thrOpts |-> {0}, betaOpts |-> {0}, setVals |-> {ValY},
     keys |-> {Key}]

Init ==
    \E backend \in Backends :
        InitHandler(NumCalls,
                    [DefaultConfig EXCEPT !.prefix = "t", !.cooperativeTimeout = 0],
                    AnyEnv, backend)

Next ==
    \E c \in 1..NumCalls :
        \/ StartCall(c)
        \/ CallGet(c)
        \/ HitRefresh(c)
        \/ HitReturn(c)
        \/ StaleGet(c)
        \/ CoopTimeout(c)
        \/ CoopDone(c)
        \/ CallLock(c)
        \/ DoubleCheck(c)
        \/ GenReturn(c)
        \/ CallSet(c)
        \/ CallUnlock(c)
        \/ BgTryLock(c)
        \/ BgExists(c)
        \/ BgGen(c)
        \/ BgSet(c)
        \/ BgSetStale(c)
        \/ BgUnlock(c)
        \/ BgCreated(c)
        \/ BgCoopLock(c)
        \/ BgCoopClose(c)

Spec == Init /\ [][Next]_vars

(***************************************************************************)
(* Claims checked under Spec.                                              *)
(***************************************************************************)
\* the generator invocations in progress: on a caller's path, in a background task
GensInProgress ==
    {<<c, "caller">> : c \in {x \in Calls : call[x].pc \in {"gen", "gendirect"}}}
      \cup {<<c, "task">> : c \in {x \in Calls : bg[x].pc = "gen"}}

\* those made while holding the key's lock: by missSyncWriteThenReturn, by a
\* standard background refresh and by a stale refresh
LockedGensInProgress ==
    {<<c, "caller">> : c \in {x \in Calls : /\ call[x].pc = "gen"
                                            /\ call[x].policy \in SyncPathPolicies}}
      \cup {<<c, "task">> : c \in {x \in Calls : bg[x].pc = "gen"}}

Cached == Unmarshal(rdb[fullKey(Key)].raw).v

\* C5: a GetOrRefresh with hit-refresh disabled that finds the key present
\* returns the cached value at once and changes nothing: no backend write,
\* no ledger update, no generator invocation, no background task, no lock
C5_PureHit ==
    [][\A c \in Calls :
          call[c].op = "GetOrRefresh" /\ call[c].pc = "get" /\ call[c].nohit
              /\ call'[c].path = "hit"
          => /\ call'[c].pc = "done"
             /\ call'[c].res = Result(Cached, TRUE, "nil")
             /\ rdb' = rdb /\ ledger' = ledger /\ locks' = locks
             /\ stats' = stats /\ bg' = bg]_vars

\* calls with hit-refresh disabled have returned from a hit under a
\* refresh-ahead policy and under a policy of the default kind
C5_Witness ==
    \E c1, c2 \in Calls :
        /\ call[c1].pc = "done" /\ call[c1].path = "hit" /\ call[c1].nohit
        /\ call[c1].policy = MissPolicyRefreshAhead
        /\ call[c2].pc = "done" /\ call[c2].path = "hit" /\ call[c2].nohit
        /\ call[c2].policy = MissPolicyBestEffort

C8_HitNeverFails ==
    [][\A c \in Calls :
          /\ call[c].op = "GetOrRefresh" /\ call[c].pc = "get" /\ call'[c].path = "hit"
                => call'[c].res = Result(Cached, TRUE, "nil")
          /\ call[c].path = "hit"
                => call'[c].res = call[c].res /\ call'[c].path = "hit"]_vars

\* a call has returned from a hit, and the refresh it spawned has ended
\* having invoked the generator and written nothing
C8_Witness ==
    \E c \in Calls :
        /\ call[c].path = "hit" /\ call[c].pc = "done"
        /\ call[c].res.err = "nil"
        /\ bg[c].kind = "refresh" /\ bg[c].pc = "done"
        /\ stats[c].bgGens = 1 /\ stats[c].bgWrites = 0

\* C9: a miss under FailFast returns the zero value with the fail-fast
\* error; the call invokes no generator, writes nothing to the backend or
\* the ledger and spawns no task
C9_FailFast ==
    \A c \in Calls :
        call[c].path = "miss" /\ call[c].policy = MissPolicyFailFast
        => /\ call[c].pc = "done"
           /\ call[c].res = Result(Zero, FALSE, "failfast")
           /\ stats[c] = NoStats
           /\ bg[c] = NoBg

\* a FailFast call has missed while the other call is generating
C9_Witness ==
    \E c1, c2 \in Calls :
        /\ call[c1].path = "miss" /\ call[c1].policy = MissPolicyFailFast
        /\ call[c1].pc = "done"
        /\ call[c2].pc = "gen"

\* C10: a miss under BestEffort never returns an error: the zero value with
\* FromCache = false when the generator failed, the generated value when it
\* succeeded, whether the cache write succeeded or not
C10_BestEffort ==
    \A c \in Calls :
        call[c].path = "miss" /\ call[c].policy = MissPolicyBestEffort
            /\ call[c].pc = "done"
        => /\ call[c].res.err = "nil"
           /\ ~call[c].res.fromCache
           /\ call[c].gen = "err" => call[c].res.value = Zero /\ stats[c].fgWrites = 0
           /\ call[c].gen = "ok" => call[c].res.value = ValY
           /\ call[c].gen # "none"

\* one BestEffort call returned the value after its write failed, the other
\* returned the zero value after its generator failed
C10_Witness ==
    \E c1, c2 \in Calls :
        /\ call[c1].policy = MissPolicyBestEffort /\ call[c1].pc = "done"
        /\ call[c1].gen = "ok" /\ stats[c1].fgWrites = 0
        /\ call[c1].res = Result(ValY, FALSE, "nil")
        /\ call[c2].policy = MissPolicyBestEffort /\ call[c2].pc = "done"
        /\ call[c2].gen = "err"
        /\ call[c2].res = Result(Zero, FALSE, "nil")

(***************************************************************************)
(* SpecTimed: NumTimedCalls concurrent calls of Set, Get and GetOrRefresh  *)
(* on one key with a refresh cooldown of Cooldown ticks and a TTL one tick *)
(* longer; time passes and entries expire.  The backend may fail; the      *)
(* generator returns X.                                                    *)
(***************************************************************************)
TimedEnv ==
    [faults |-> TRUE, genOut |-> {GenOk(ValX)},
     ops |-> {"Set", "Get", "GetOrRefresh"},
     overrides |-> {NoOverride, MissPolicyFailFast},
     ttlOpts |-> {0}, nohitOpts |-> {FALSE},
     thrOpts |-> {0}, betaOpts |-> {0}, setVals |-> {ValY, ValBad},
     keys |-> {Key}]

InitTimed ==
    InitHandler(NumTimedCalls,
                [DefaultConfig EXCEPT !.prefix = "t", !.refreshCooldown = Cooldown,
                                      !.defaultTTL = Cooldown + 1],
                TimedEnv, NoMap)

\* what the callers of SpecTimed do: one sets, one reads, one does either
TimedOps == <<{"Set"}, {"Get", "GetOrRefresh"}, {"Set", "GetOrRefresh"}>>

NextTimed ==
    \/ Tick
    \/ \E c \in 1..NumTimedCalls :
          \/ StartCall(c) /\ call'[c].op \in TimedOps[((c - 1) % 3) + 1]
          \/ CallGet(c)
          \/ HitRefresh(c)
          \/ HitReturn(c)
          \/ CallLock(c)
          \/ DoubleCheck(c)
          \/ GenReturn(c)
          \/ CallSet(c)
          \/ CallLedger(c)
          \/ CallUnlock(c)
          \/ BgTryLock(c)
          \/ BgShould(c)
          \/ BgGen(c)
          \/ BgSet(c)
          \/ BgLedger(c)
          \/ BgUnlock(c)

SpecTimed == InitTimed /\ [][NextTimed]_vars

\* call s is a Set that has returned without error
SetSucceeded(s) ==
    call[s].op = "Set" /\ call[s].pc = "done" /\ call[s].res.err = "nil"

\* the entry under the key is the one Set call s wrote: no write since, no expiry
HoldsWriteOf(s) ==
    /\ Present(fullKey(Key))
    /\ rdb[fullKey(Key)].by = [c |-> s, role |-> "Set"]

\* call g is a Get that performs its read in this step
GetReads(g) == call[g].op = "Get" /\ call[g].pc = "get" /\ call'[g].pc = "done"

\* C4 as claimed: a Get that follows a successful Set(K, v), with no write
\* to K and no expiry in between, returns v with FromCache = true, no error
C4_SetThenGet ==
    [][\A s, g \in Calls :
          SetSucceeded(s) /\ HoldsWriteOf(s) /\ GetReads(g)
          => call'[g].res = Result(call[s].arg, TRUE, "nil")]_vars

\* C4 as amended: such a Get, when the backend answers the read, returns
\* with FromCache = true and no error the value JSON decodes from what Set
\* encoded: v with every byte that is not valid UTF-8 replaced by U+FFFD,
\* so v itself when v is valid UTF-8
C4_SetThenGetDecoded ==
    [][\A s, g \in Calls :
          SetSucceeded(s) /\ HoldsWriteOf(s) /\ GetReads(g)
          => \/ call'[g].res = Result(Zero, FALSE, "redis get")
             \/ /\ call'[g].res = Result(Coerce(call[s].arg), TRUE, "nil")
                /\ call[s].arg = ValY => call'[g].res.value = ValY]_vars

\* a Get has returned the value of a successful Set that is still the
\* cached entry, while another Set failed
C4_Witness ==
    \E s, g, o \in Calls :
        /\ SetSucceeded(s) /\ HoldsWriteOf(s)
        /\ call[g].op = "Get" /\ call[g].pc = "done"
        /\ call[g].res = Result(call[s].arg, TRUE, "nil")
        /\ call[o].op = "Set" /\ call[o].pc = "done" /\ call[o].res.err # "nil"

\* call c is a GetOrRefresh that hit and makes its refresh decision in this step
DecidesRefresh(c) ==
    /\ call[c].op = "GetOrRefresh" /\ call[c].path = "hit"
    /\ call[c].pc = "hitrefresh" /\ call'[c].pc = "hitret"

\* a successful Set returned less than the cooldown ago
RecentSet == \E s \in Calls : SetSucceeded(s) /\ now - call[s].t0 < cfg.refreshCooldown

\* C7: with a positive cooldown, a GetOrRefresh under a default policy that
\* hits and decides about its refresh less than the cooldown after a
\* successful Set returned spawns no background refresh, and a hit that
\* spawned none never invokes the generator
C7_CooldownAfterSet ==
    [][\A c \in Calls :
          /\ DecidesRefresh(c) /\ RecentSet => bg'[c] = NoBg
          /\ call[c].path = "hit" /\ call[c].pc \in {"hitret", "done"} /\ bg[c] = NoBg
                => bg'[c] = NoBg /\ stats'[c].fgGens = 0 /\ stats'[c].bgGens = 0]_vars

\* a hit within the cooldown of a Set has returned without a refresh, and a
\* hit of another call, after the cooldown, has spawned one
C7_Witness ==
    \E s, c, d \in Calls :
        /\ SetSucceeded(s) /\ call[s].t0 = 0
        /\ call[c].path = "hit" /\ call[c].pc = "done" /\ bg[c] = NoBg
        /\ stats[c] = NoStats
        /\ call[d].path = "hit" /\ bg[d].kind = "refresh"
        /\ now >= cfg.refreshCooldown

(***************************************************************************)
(* SpecCooldown: NumCalls concurrent calls of GetOrRefresh under any       *)
(* policy on one key, with a positive refresh cooldown, so that every Set  *)
(* stamps the ledger, and a cooperative timeout that can fire at once.     *)
(* The backend is reliable or may fail, the generator returns Y or may     *)
(* fail as well; no time passes.                                           *)
(***************************************************************************)
InitCooldown ==
    \E backend \in Backends, faults \in BOOLEAN, genfails \in BOOLEAN :
        InitHandler(NumCalls,
                    [DefaultConfig EXCEPT !.prefix = "t", !.cooperativeTimeout = 0,
                                          !.refreshCooldown = Cooldown],
                    [AnyEnv EXCEPT !.faults = faults,
                                   !.genOut = IF ~genfails THEN {GenOk(ValY)}
                                                          ELSE {GenErr, GenOk(ValY)},
                                   !.overrides = DefinedPolicies,
                                   !.nohitOpts = {FALSE}],
                    backend)

NextCooldown ==
    \E c \in 1..NumCalls :
        \/ StartCall(c)
        \/ CallGet(c)
        \/ HitRefresh(c)
        \/ HitReturn(c)
        \/ StaleGet(c)
        \/ CoopTimeout(c)
        \/ CoopDone(c)
        \/ CallLock(c)
        \/ DoubleCheck(c)
        \/ GenReturn(c)
        \/ CallSet(c)
        \/ CallLedger(c)
        \/ CallUnlock(c)
        \/ BgTryLock(c)
        \/ BgExists(c)
        \/ BgShould(c)
        \/ BgGen(c)
        \/ BgSet(c)
        \/ BgLedger(c)
        \/ BgSetStale(c)
        \/ BgUnlock(c)
        \/ BgCreated(c)
        \/ BgCoopLock(c)
        \/ BgCoopClose(c)

SpecCooldown == InitCooldown /\ [][NextCooldown]_vars

\* the background task of call c has invoked the generator and it failed
BgGenFailed(c) ==
    /\ bg[c].kind \in {"stale", "refresh"} /\ bg[c].got
    /\ stats[c].bgGens = 1
    /\ bg[c].pc \in {"unlock", "done"} /\ bg[c].v = Zero

\* C11: under every miss policy, a call whose generator invocation failed
\* has written nothing to the backend and nothing to the ledger and has
\* spawned no task that does (no task but the lock goroutine of
\* CooperativeRefresh); a task whose generator failed has written nothing
C11_FailedGeneratorWritesNothing ==
    \A c \in Calls :
        /\ call[c].gen = "err"
              => /\ stats[c] = [NoStats EXCEPT !.fgGens = 1]
                 /\ bg[c].kind \in {"none", "coop"}
                 /\ \A k \in DOMAIN rdb : rdb[k].by.c # c
        /\ BgGenFailed(c)
              => /\ stats[c].bgWrites = 0 /\ stats[c].bgLedger = 0
                 /\ \A k \in DOMAIN rdb : rdb[k].by.c # c

\* generators have failed on the locked path, on the lock-free path and in
\* a stale refresh, and the calls have returned
C11_Witness ==
    \E c1, c2 \in Calls :
        /\ call[c1].gen = "err" /\ call[c1].pc = "done"
        /\ call[c1].policy \in SyncPathPolicies
        /\ \/ call[c2].gen = "err" /\ call[c2].pc = "done"
              /\ call[c2].policy = MissPolicyReturnThenAsyncWrite
           \/ BgGenFailed(c2) /\ bg[c2].kind = "stale" /\ bg[c2].pc = "done"

(***************************************************************************)
(* SpecStale: NumCalls concurrent calls of GetOrRefresh under the default  *)
(* policy or StaleWhileRevalidate on one key; time passes, main entries    *)
(* live one tick and stale copies StaleTTL ticks, every Set stamps the     *)
(* ledger (positive cooldown).  The stale copy may be preloaded (X); the   *)
(* backend is reliable or may fail; the generator returns Y.               *)
(***************************************************************************)
InitStale ==
    \E backend \in {NoMap, "t:k:stale" :> Preloaded(Marshal(ValX).raw)},
       faults \in BOOLEAN :
        InitHandler(NumCalls,
                    [DefaultConfig EXCEPT !.prefix = "t", !.defaultTTL = 1,
                                          !.staleDataTTL = StaleTTL,
                                          !.refreshCooldown = Cooldown],
                    [AnyEnv EXCEPT !.faults = faults,
                                   !.genOut = {GenOk(ValY)},
                                   !.overrides = {NoOverride,
                                                  MissPolicyStaleWhileRevalidate},
                                   !.nohitOpts = {FALSE}],
                    backend)

NextStale ==
    \/ Tick
    \/ \E c \in 1..NumCalls :
          \/ StartCall(c)
          \/ CallGet(c)
          \/ HitRefresh(c)
          \/ HitReturn(c)
          \/ StaleGet(c)
          \/ CallLock(c)
          \/ DoubleCheck(c)
          \/ GenReturn(c)
          \/ CallSet(c)
          \/ CallLedger(c)
          \/ CallUnlock(c)
          \/ BgTryLock(c)
          \/ BgShould(c)
          \/ BgGen(c)
          \/ BgSet(c)
          \/ BgLedger(c)
          \/ BgSetStale(c)
          \/ BgUnlock(c)

SpecStale == InitStale /\ [][NextStale]_vars

\* the entry under k was written by the handler
HandlerWrote(k) == k \in DOMAIN rdb /\ rdb[k].by # External

\* the write of the entry under k is over: its h.Set or setToKey has returned
WriteReturned(k) ==
    LET by == rdb[k].by
    IN  IF by.role \in {"Set", "miss"} THEN call[by.c].pc # "ledger"
        ELSE IF by.role = "stalecopy" THEN TRUE
        ELSE bg[by.c].pc # "ledger"

Populated(s) ==
    /\ call[s].policy = MissPolicyStaleWhileRevalidate
    /\ call[s].path = "miss" /\ call[s].pc = "done"
    /\ call[s].gen = "ok" /\ stats[s].fgWrites = 1
    /\ call[s].res = Result(call[s].v, FALSE, "nil")

\* C16: under StaleWhileRevalidate, once a miss has populated the key and
\* the main entry has expired, a GetOrRefresh within the stale-data window
\* is served the previously cached value from the stale copy
\* (FromCache = true) and does not regenerate synchronously
C16_ServedStaleAfterExpiry ==
    [][\A s, c \in Calls :
          /\ ~env.faults
          /\ Populated(s)
          /\ ~Present(fullKey(Key))
          /\ now - call[s].t0 < cfg.staleDataTTL
          /\ call[c].policy = MissPolicyStaleWhileRevalidate
          /\ call[c].pc = "stale" /\ call'[c].pc # "stale"
          => /\ call'[c].pc = "done"
             /\ call'[c].res = Result(call[s].v, TRUE, "nil")]_vars

(***************************************************************************)
(* Claims about the background write of ReturnThenAsyncWrite and the       *)
(* stale refresh of StaleWhileRevalidate, under SpecCooldown.              *)
(***************************************************************************)
\* the backend and the generator never fail
Reliable == ~env.faults /\ GenErr \notin env.genOut

\* every call has returned and every task has ended
Quiescent ==
    \A c \in Calls : call[c].pc = "done" /\ bg[c].pc \in {"none", "done"}

\* a Get of the key would be a hit
Readable(k) == Present(k) /\ Unmarshal(rdb[k].raw).ok

\* call c missed under ReturnThenAsyncWrite and returned the generated value
ReturnedThenAsync(c) ==
    /\ call[c].policy = MissPolicyReturnThenAsyncWrite
    /\ call[c].path = "miss" /\ call[c].pc = "done"
    /\ call[c].res = Result(ValY, FALSE, "nil")

\* C13 as claimed: after a ReturnThenAsyncWrite miss has returned the
\* generated value, the key ends up present in the backend (reliable
\* backend, no expiry), whatever the other calls and tasks do
C13_EventuallyWritten ==
    ~env.faults /\ Quiescent /\ (\E c \in Calls : ReturnedThenAsync(c))
    => Readable(fullKey(Key))

\* C13 as amended: after a ReturnThenAsyncWrite miss has returned the
\* generated value, the key is present once the call's write task has ended,
\* provided the task obtained the key lock with its TryLock; a task that
\* finds the lock taken exits without writing
C13_WrittenIfLockObtained ==
    \A c \in Calls :
        ~env.faults /\ ReturnedThenAsync(c) /\ bg[c].kind = "misswrite"
        => /\ bg[c].got /\ bg[c].pc \in {"unlock", "done"} => Readable(fullKey(Key))
           /\ ~bg[c].got /\ bg[c].pc = "done" => stats[c].bgWrites = 0

\* a write task has written the generated value and ended
C13_Witness ==
    \E c \in Calls :
        /\ ~env.faults /\ ReturnedThenAsync(c)
        /\ bg[c].kind = "misswrite" /\ bg[c].got /\ bg[c].pc = "done"
        /\ stats[c].bgWrites = 1
        /\ rdb[fullKey(Key)].by = [c |-> c, role |-> "misswrite"]

\* call c is a StaleWhileRevalidate miss in its read of the stale copy
ReadsStale(c) ==
    /\ call[c].policy = MissPolicyStaleWhileRevalidate
    /\ call[c].pc = "stale" /\ call'[c].pc # "stale"

\* call c was served from the stale copy
ServedStale(c) ==
    /\ call[c].policy = MissPolicyStaleWhileRevalidate
    /\ call[c].path = "miss" /\ call[c].pc = "done" /\ call[c].res.fromCache

\* C14: a StaleWhileRevalidate miss that reads the stale companion returns
\* the stale value with FromCache = true and no error and spawns the stale
\* refresh; the caller's path invokes no generator and writes nothing (the
\* read can fail only when the backend fails)
C14_ServedFromStale ==
    [][\A c \in Calls :
          /\ ReadsStale(c) /\ Readable(staleKeyOf(Key))
                => \/ /\ call'[c].pc = "done"
                      /\ call'[c].res =
                            Result(Unmarshal(rdb[staleKeyOf(Key)].raw).v, TRUE, "nil")
                      /\ bg'[c].kind = "stale"
                      /\ stats' = stats /\ rdb' = rdb /\ ledger' = ledger
                      /\ locks' = locks
                   \/ env.faults /\ call'[c].pc = "lock"
          /\ ServedStale(c)
                => /\ call'[c] = call[c]
                   /\ stats'[c].fgGens = 0 /\ stats'[c].fgWrites = 0
                   /\ stats'[c].fgLedger = 0]_vars

\* a call was served the stale value while the main key was still absent
C14_Witness ==
    \E c \in Calls :
        /\ ServedStale(c)
        /\ call[c].res = Result(ValX, TRUE, "nil")
        /\ ~Present(fullKey(Key))
        /\ bg[c].kind = "stale"

\* the entry under k is the encoding of the generator's fresh value
Fresh(k) == Present(k) /\ rdb[k].raw = Marshal(ValY).raw /\ rdb[k].by # External

\* C15 as claimed: after a call has been served from the stale copy, the
\* main key and the stale companion both end up written with the
\* generator's fresh value (reliable generator and backend), whatever the
\* other calls and tasks do
C15_BothEventuallyFresh ==
    Reliable /\ Quiescent /\ (\E c \in Calls : ServedStale(c))
    => Fresh(fullKey(Key)) /\ Fresh(staleKeyOf(Key))

\* C15 as amended: after a call has been served from the stale copy, the
\* main key and the stale companion hold the generator's fresh value once
\* the call's stale refresh has ended, provided the refresh obtained the key
\* lock with its TryLock; a refresh that finds the lock taken exits without
\* generating or writing
C15_BothFreshIfLockObtained ==
    \A c \in Calls :
        Reliable /\ ServedStale(c) /\ bg[c].kind = "stale"
        => /\ bg[c].got /\ bg[c].pc \in {"unlock", "done"}
                 => Fresh(fullKey(Key)) /\ Fresh(staleKeyOf(Key))
           /\ ~bg[c].got /\ bg[c].pc = "done"
                 => stats[c].bgGens = 0 /\ stats[c].bgWrites = 0

\* a stale refresh has written both keys and ended
C15_Witness ==
    \E c \in Calls :
        /\ Reliable /\ ServedStale(c)
        /\ bg[c].kind = "stale" /\ bg[c].got /\ bg[c].pc = "done"
        /\ stats[c].bgWrites = 2
        /\ rdb[staleKeyOf(Key)].by = [c |-> c, role |-> "stalecopy"]

(***************************************************************************)
(* CooperativeRefresh with cooperativeTimeout = 0, under Spec.             *)
(***************************************************************************)
\* call c is a CooperativeRefresh call that has left the select statement
PastSelect(c) ==
    /\ call[c].policy = MissPolicyCooperativeRefresh
    /\ call[c].path \in {"miss", "timeout"}
    /\ call[c].pc # "select"

\* C17: with cooperativeTimeout = 0 every CooperativeRefresh call that
\* reaches the miss path takes the timeout branch, invokes the generator
\* directly and writes nothing to the backend
C17_ZeroTimeoutAlwaysDirect ==
    cfg.cooperativeTimeout = 0
    => \A c \in Calls :
          PastSelect(c) => /\ call[c].path = "timeout"
                           /\ stats[c].fgGens = 1
                           /\ stats[c].fgWrites = 0

(***************************************************************************)
(* CooperativeRefresh over time: every call uses the policy, the timeout   *)
(* is one tick, entries do not expire within the horizon, the generator    *)
(* returns X or Y, and the backend and the generator are reliable or may   *)
(* fail.                                                                   *)
(***************************************************************************)
InitCoop ==
    \E faults \in BOOLEAN :
        InitHandler(NumCalls,
                    [DefaultConfig EXCEPT
                        !.prefix = "t", !.defaultTTL = MaxTime + 1,
                        !.defaultMissPolicy = MissPolicyCooperativeRefresh,
                        !.refreshCooldown = Cooldown,
                        !.cooperativeTimeout = 1],
                    [AnyEnv EXCEPT !.faults = faults,
                                   !.genOut = IF faults
                                                 THEN {GenErr, GenOk(ValX), GenOk(ValY)}
                                                 ELSE {GenOk(ValX), GenOk(ValY)},
                                   !.overrides = {NoOverride},
                                   !.nohitOpts = {FALSE}],
                    NoMap)

NextCoop ==
    \/ Tick
    \/ \E c \in 1..NumCalls :
          \/ StartCall(c)
          \/ CallGet(c)
          \/ HitRefresh(c)
          \/ HitReturn(c)
          \/ CoopTimeout(c)
          \/ CoopDone(c)
          \/ CallLock(c)
          \/ DoubleCheck(c)
          \/ GenReturn(c)
          \/ CallSet(c)
          \/ CallLedger(c)
          \/ CallUnlock(c)
          \/ BgTryLock(c)
          \/ BgShould(c)
          \/ BgGen(c)
          \/ BgSet(c)
          \/ BgLedger(c)
          \/ BgUnlock(c)
          \/ BgCoopLock(c)
          \/ BgCoopClose(c)

SpecCoop == InitCoop /\ [][NextCoop]_vars

(***************************************************************************)
(* Claims about CooperativeRefresh, under SpecCoop.                        *)
(***************************************************************************)
\* call c took the timeout branch of the select statement
TimedOut(c) ==
    call[c].policy = MissPolicyCooperativeRefresh /\ call[c].path = "timeout"

\* call c took the lock branch of the select statement
WonLock(c) ==
    /\ call[c].policy = MissPolicyCooperativeRefresh
    /\ call[c].path = "miss" /\ call[c].pc # "select"

\* what a call returns from its own generator invocation
OwnResult(c) ==
    IF call[c].gen = "ok" THEN Result(call[c].v, FALSE, "nil")
                          ELSE Result(Zero, FALSE, "generator")

\* C18: a CooperativeRefresh caller whose timeout fires returns its own
\* generator result and performs no backend write and no ledger update, on
\* its path or in a task; an entry stored for the key is never its own
C18_TimedOutCallerWritesNothing ==
    \A c \in Calls :
        TimedOut(c)
        => /\ stats[c] = [NoStats EXCEPT !.fgGens = 1]
           /\ bg[c].kind = "coop"
           /\ call[c].pc \in {"gendirect", "done"}
           /\ call[c].pc = "done" => call[c].res = OwnResult(c)
           /\ Present(fullKey(Key)) => rdb[fullKey(Key)].by.c # c

\* a caller timed out and returned its own value X while the entry stored
\* for the key is the value Y written by another caller's synchronous path
C18_Witness ==
    \E c, a \in Calls :
        /\ c # a
        /\ TimedOut(c) /\ call[c].pc = "done"
        /\ call[c].res = Result(ValX, FALSE, "nil")
        /\ WonLock(a) /\ call[a].pc = "done"
        /\ Present(fullKey(Key))
        /\ rdb[fullKey(Key)].by = [c |-> a, role |-> "miss"]
        /\ rdb[fullKey(Key)].raw = Marshal(ValY).raw

\* every call is a CooperativeRefresh call that missed: the calls read the
\* key before any of them wrote it
ConcurrentMisses ==
    \A c \in Calls : call[c].policy = MissPolicyCooperativeRefresh
                     /\ call[c].path \in {"miss", "timeout"}

\* C19 as claimed: for concurrent misses on the same key the generator is
\* invoked by exactly one of the callers and every caller returns that
\* result (reliable backend and generator)
C19_ExactlyOneGenerates ==
    ~env.faults /\ ConcurrentMisses /\ (\A c \in Calls : call[c].pc = "done")
    => /\ Cardinality({c \in Calls : stats[c].fgGens > 0}) = 1
       /\ \A c, d \in Calls : call[c].res.value = call[d].res.value

\* C19 as amended: for concurrent misses on the same key, among the callers
\* whose timeout does not fire exactly one invokes the generator and the
\* others return its value from the cache; every caller whose timeout fires
\* invokes the generator itself and returns its own value
C19_OneGeneratesAmongLockWinners ==
    ~env.faults /\ ConcurrentMisses
    => /\ Cardinality({c \in Calls : WonLock(c) /\ stats[c].fgGens > 0}) <= 1
       /\ \A c \in Calls :
             /\ stats[c].fgGens <= 1
             /\ WonLock(c) /\ call[c].pc = "done"
                   => \E g \in Calls :
                         /\ WonLock(g) /\ stats[g].fgGens = 1 /\ call[g].gen = "ok"
                         /\ call[c].res = Result(call[g].v, c # g, "nil")
                         /\ c # g => stats[c].fgGens = 0
             /\ TimedOut(c) => stats[c].fgGens = 1
             /\ TimedOut(c) /\ call[c].pc = "done" => call[c].res = OwnResult(c)

\* one caller generated and wrote, the other waited and returned that value
\* from the cache without invoking the generator
C19_Witness ==
    \E c, g \in Calls :
        /\ ~env.faults /\ ConcurrentMisses
        /\ c # g /\ WonLock(c) /\ WonLock(g)
        /\ call[c].pc = "done" /\ call[g].pc = "done"
        /\ stats[g].fgGens = 1 /\ stats[c].fgGens = 0
        /\ call[c].res = Result(call[g].v, TRUE, "nil")

\* CooperativeRefresh call c is waiting for the key lock, held by another
\* call or task: in the select statement while its goroutine waits in Lock,
\* or in the Lock of missSyncWriteThenReturn after its goroutine has
\* released the lock
BlockedOnLock(c) ==
    /\ call[c].policy = MissPolicyCooperativeRefresh
    /\ call[c].path = "miss"
    /\ ~CanSend(locks, fullKey(Key))
    /\ \/ call[c].pc = "select" /\ bg[c].pc = "lock"
       \/ call[c].pc = "lock" /\ bg[c].pc = "done"

\* C20: a CooperativeRefresh caller never waits for the key lock past its
\* cooperativeTimeout: whenever it is blocked on the lock and the timeout
\* has elapsed, the fallback to direct generation is available to it
C20_WaitBoundedByTimeout ==
    \A c \in Calls :
        BlockedOnLock(c) /\ now - call[c].t0 >= cfg.cooperativeTimeout
        => call[c].pc = "select"

(***************************************************************************)
(* TryLock, under SpecLock.                                                *)
(***************************************************************************)
\* C21: TryLock never blocks; it reports acquired exactly when no task
\* holds the key at that moment (so it succeeds again once the holder has
\* released); a refused attempt and the releaser it returned leave the lock
\* state of every key unchanged
C21_TryLockNonBlocking ==
    [][\A t \in LockTasks :
          /\ km[t].pc = "TryLock" => ENABLED TaskTryLock(t)
          /\ km[t].pc = "TryLock" /\ km'[t].pc # "TryLock"
                => /\ km'[t].pc \in {"held", "refused"}
                   /\ km'[t].pc = "held" <=> LockHolders(km[t].key) = {}
                   /\ km'[t].pc = "refused"
                         => /\ \A k \in LockKeys : LockHolders(k)' = LockHolders(k)
                            /\ locks' = locks
          /\ km[t].pc = "refused" /\ km'[t].pc # "refused"
                => /\ \A k \in LockKeys : LockHolders(k)' = LockHolders(k)
                   /\ locks' = locks]_vars

\* a TryLock was refused on a held key and its no-op releaser is about to be
\* invoked, while the other key is free
C21_Witness ==
    \E t, u \in LockTasks :
        /\ km[t].pc = "refused" /\ km[u].pc = "held" /\ km[u].key = km[t].key
        /\ locks[km[t].key] = 1
        /\ \A k \in LockKeys \ {km[t].key} : LockHolders(k) = {}

(***************************************************************************)
(* Errors of GetOrRefresh, under Spec and SpecCooldown.                    *)
(***************************************************************************)
\* call c is a GetOrRefresh with a policy outside the enumeration whose
\* initial read found the key present or absent
UnknownPolicyCall(c) ==
    /\ call[c].op = "GetOrRefresh"
    /\ call[c].policy = UnknownPolicy
    /\ call[c].path \in {"hit", "miss"}

\* C22: a GetOrRefresh call whose effective policy is not one of the eight
\* defined policies returns the unknown-policy error, invokes no generator
\* and writes nothing, on its path or in a task, whether the key is present
\* or absent
C22_UnknownPolicyRejected ==
    \A c \in Calls :
        UnknownPolicyCall(c)
        => /\ stats[c] = NoStats
           /\ bg[c].kind = "none"
           /\ call[c].pc = "done"
                 => call[c].res = Result(Zero, FALSE, "unknown policy")

\* the errors of a read other than not-found, with the zero value
ReadErrors ==
    {Result(Zero, FALSE, "redis get"), Result(Zero, FALSE, "unmarshal")}

\* the key holds bytes that json.Unmarshal rejects
Undecodable(k) == Present(k) /\ ~Unmarshal(rdb[k].raw).ok

\* the double-check read of call c inside the sync-miss handler failed
DoubleCheckFailed(c) ==
    /\ call[c].op = "GetOrRefresh"
    /\ call[c].path = "miss" /\ call[c].gen = "none"
    /\ call[c].pc \in {"unlock", "done"}
    /\ call[c].res \in ReadErrors

\* C23: when the initial read of GetOrRefresh or the double-check read of
\* the sync-miss handler fails with an error other than not-found, the call
\* returns that error with the zero value and FromCache = false, invokes no
\* generator and writes nothing, under every policy
C23_ReadErrorPropagated ==
    [][\A c \in Calls :
          call[c].op = "GetOrRefresh"
          => /\ call[c].pc = "get" /\ call'[c].pc # "get"
                /\ Undecodable(fullKey(Key))
                   => call'[c].path = "err"
             /\ call'[c].path = "err"
                   => /\ call'[c].pc = "done"
                      /\ call'[c].res \in ReadErrors
                      /\ stats'[c] = NoStats
                      /\ bg'[c].kind = "none"
             /\ call[c].pc = "dcheck" /\ call'[c].pc # "dcheck"
                   => \/ call'[c].pc = "gen"
                      \/ /\ call'[c].pc = "unlock"
                         /\ call'[c].res.err = "nil" \/ call'[c].res \in ReadErrors
                         /\ stats' = stats /\ rdb' = rdb /\ ledger' = ledger
             /\ call[c].pc = "unlock" /\ call'[c].pc # "unlock"
                   => call'[c].pc = "done" /\ call'[c].res = call[c].res
             /\ DoubleCheckFailed(c)'
                   => /\ stats'[c] = NoStats
                      /\ bg'[c].kind \in {"none", "coop"}
                      /\ \A k \in DOMAIN rdb' : rdb'[k].by.c # c]_vars

\* one call returned the error of its initial read, another the error of its
\* double-check read
C23_Witness ==
    \E c, d \in Calls :
        /\ call[c].path = "err" /\ call[c].pc = "done"
        /\ call[c].res = Result(Zero, FALSE, "redis get")
        /\ DoubleCheckFailed(d) /\ call[d].pc = "done"
        /\ call[d].res = Result(Zero, FALSE, "redis get")

\* call c is a miss in the sync-miss handler (missSyncWriteThenReturn)
InSyncMiss(c) ==
    /\ call[c].op = "GetOrRefresh"
    /\ call[c].policy \in SyncPathPolicies
    /\ call[c].path = "miss"

\* the generator of call c succeeded and its write then failed
WriteFailed(c) ==
    /\ InSyncMiss(c) /\ call[c].gen = "ok"
    /\ call[c].pc \in {"unlock", "done"}
    /\ stats[c].fgWrites = 0

\* C24: in the sync-miss handler, when the generator succeeds but the
\* backend write fails, the call returns the write error with the zero
\* value, not the generated value, and does not update the ledger
C24_WriteFailureSurfaces ==
    \A c \in Calls :
        WriteFailed(c)
        => /\ call[c].res = Result(Zero, FALSE, "redis set")
           /\ stats[c].fgLedger = 0
           /\ stats[c].fgGens = 1
           /\ \A k \in DOMAIN rdb : rdb[k].by.c # c
           /\ (\A d \in Calls : stats[d].fgLedger + stats[d].bgLedger = 0)
                 => ledger = NoMap

\* a call under the positive cooldown returned the write error after its
\* generator had returned Y; nothing is cached and the ledger is empty
C24_Witness ==
    \E c \in Calls :
        /\ WriteFailed(c) /\ call[c].pc = "done" /\ call[c].v = ValY
        /\ cfg.refreshCooldown > 0
        /\ ~Present(fullKey(Key))
        /\ ledger = NoMap

(***************************************************************************)
(* The FromCache flag of the miss handlers, under Spec.                    *)
(***************************************************************************)
\* call c went through a miss handler and returned without error
MissReturnedOk(c) ==
    /\ call[c].op = "GetOrRefresh"
    /\ call[c].path \in {"miss", "timeout"}
    /\ call[c].pc = "done"
    /\ call[c].res.err = "nil"

\* C25 as claimed: every successful return of a miss handler has
\* FromCache = false, for every policy and every interleaving
C25_MissNeverFromCache ==
    \A c \in Calls : MissReturnedOk(c) => ~call[c].res.fromCache

\* C25 as amended: a successful return of a miss handler has
\* FromCache = false exactly when the call invoked the generator; a value
\* read by the double-check of the sync-miss handler or from the stale copy
\* is returned with FromCache = true and without a generator invocation
C25_FromCacheIffNotGenerated ==
    \A c \in Calls :
        MissReturnedOk(c)
        => /\ call[c].res.fromCache <=> call[c].gen = "none"
           /\ call[c].res.fromCache <=> stats[c].fgGens = 0
           /\ call[c].gen = "ok" => call[c].res = Result(call[c].v, FALSE, "nil")

\* one call generated and returned FromCache = false, the other found the
\* value in its double-check and returned it with FromCache = true
C25_Witness ==
    \E c, g \in Calls :
        /\ MissReturnedOk(c) /\ MissReturnedOk(g)
        /\ call[g].gen = "ok" /\ ~call[g].res.fromCache
        /\ call[c].policy \in SyncPathPolicies \ {MissPolicyStaleWhileRevalidate}
        /\ call[c].gen = "none" /\ call[c].res = Result(call[g].v, TRUE, "nil")

(***************************************************************************)
(* The double-check of the sync-miss handler, under SpecStale.             *)
(***************************************************************************)
\* the entry under the key is the one call a wrote in its sync-miss handler
WroteInSyncMiss(a) ==
    /\ InSyncMiss(a)
    /\ Present(fullKey(Key))
    /\ rdb[fullKey(Key)].by = [c |-> a, role |-> "miss"]

InitAhead ==
    \E backend \in {NoMap, "t:k" :> Preloaded(Marshal(ValX).raw)},
       default \in {0, 100} :
        InitHandler(NumCalls,
                    [DefaultConfig EXCEPT
                        !.prefix = "t",
                        !.defaultMissPolicy = MissPolicyRefreshAhead,
                        !.defaultRefreshAheadThreshold = default],
                    [AnyEnv EXCEPT !.faults = FALSE,
                                   !.genOut = {GenOk(ValY)},
                                   !.overrides = {NoOverride},
                                   !.ttlOpts = {0, 1},
                                   !.thrOpts = {NoThreshold, 0, 100},
                                   !.nohitOpts = {FALSE}],
                    backend)

NextAhead ==
    \/ Tick
    \/ \E c \in 1..NumCalls :
          \/ StartCall(c)
          \/ CallGet(c)
          \/ HitRefresh(c)
          \/ HitReturn(c)
          \/ CallLock(c)
          \/ DoubleCheck(c)
          \/ GenReturn(c)
          \/ CallSet(c)
          \/ CallUnlock(c)
          \/ BgSleep(c)
          \/ BgExists(c)
          \/ BgTryLock(c)
          \/ BgGen(c)
          \/ BgSet(c)
          \/ BgUnlock(c)

SpecAhead == InitAhead /\ [][NextAhead]_vars

\* call c is a RefreshAhead hit that takes its refresh decision in this step
DecidesRefreshAhead(c) ==
    /\ call[c].op = "GetOrRefresh"
    /\ call[c].policy = MissPolicyRefreshAhead
    /\ call[c].pc = "hitrefresh" /\ call'[c].pc # "hitrefresh"

\* C27 as claimed: with a refresh-ahead threshold of 0, set as the handler
\* default or passed as the per-call option, a RefreshAhead hit never spawns
\* a background refresh, for any positive remaining TTL
C27_ZeroThresholdNeverRefreshes ==
    [][\A c \in Calls :
          /\ DecidesRefreshAhead(c)
          /\ \/ call[c].thr = 0
             \/ call[c].thr = NoThreshold /\ cfg.defaultRefreshAheadThreshold = 0
          /\ RdbTTL(fullKey(Key)) > 0
          => bg'[c] = bg[c]]_vars

\* C27 as amended: a RefreshAhead hit never spawns a background refresh when
\* the handler default threshold is 0 and the call passes no threshold or
\* the threshold 0; a per-call threshold of 0 counts as not set, so with a
\* positive handler default the default decides
C27_ZeroDefaultNeverRefreshes ==
    [][\A c \in Calls :
          DecidesRefreshAhead(c) /\ call[c].thr \in {NoThreshold, 0}
          => /\ cfg.defaultRefreshAheadThreshold = 0 => bg'[c] = bg[c]
             /\ cfg.defaultRefreshAheadThreshold = 100
                /\ RdbTTL(fullKey(Key)) \in 1..call[c].ttl /\ ~env.faults
                   => bg'[c].kind = "refresh"]_vars

\* a RefreshAhead hit with the per-call threshold 0 under the handler
\* default 0 returned the cached value within its TTL and spawned nothing
C27_Witness ==
    \E c \in Calls :
        /\ call[c].policy = MissPolicyRefreshAhead /\ call[c].path = "hit"
        /\ call[c].thr = 0 /\ cfg.defaultRefreshAheadThreshold = 0
        /\ call[c].pc = "done" /\ bg[c].kind = "none"
        /\ RdbTTL(fullKey(Key)) > 0

\* C28: with a refresh-ahead threshold of 1 every RefreshAhead hit on a
\* present key spawns a background refresh, whatever TTL the entry was
\* written with and whatever effective TTL the call uses (reliable backend)
C28_FullThresholdAlwaysRefreshes ==
    [][\A c \in Calls :
          /\ DecidesRefreshAhead(c)
          /\ EffectiveThreshold(call[c].thr) = 100
          /\ RdbTTL(fullKey(Key)) > 0
          /\ ~env.faults
          => bg'[c].kind = "refresh"]_vars

(***************************************************************************)
(* The refresh cooldown over time: the cooldown is negative, 0 or Cooldown,*)
(* the calls use the default policy, with or without hit refresh, entries  *)
(* outlive the horizon, the key is absent or present, and the backend and  *)
(* the generator are reliable or may fail.                                 *)
(***************************************************************************)
InitRefresh ==
    \E backend \in {NoMap, "t:k" :> [Preloaded(Marshal(ValX).raw) EXCEPT !.exp = MaxTime + 1]},
       cooldown \in {0 - 1, 0, Cooldown}, faults \in BOOLEAN :
        InitHandler(NumCalls,
                    [DefaultConfig EXCEPT !.prefix = "t",
                                          !.defaultTTL = MaxTime + 1,
                                          !.refreshCooldown = cooldown],
                    [AnyEnv EXCEPT !.faults = faults,
                                   !.genOut = IF faults THEN {GenErr, GenOk(ValY)}
                                                        ELSE {GenOk(ValY)},
                                   !.overrides = {NoOverride}],
                    backend)

NextRefresh ==
    \/ Tick
    \/ \E c \in 1..NumCalls :
          \/ StartCall(c)
          \/ CallGet(c)
          \/ HitRefresh(c)
          \/ HitReturn(c)
          \/ CallLock(c)
          \/ DoubleCheck(c)
          \/ GenReturn(c)
          \/ CallSet(c)
          \/ CallLedger(c)
          \/ CallUnlock(c)
          \/ BgTryLock(c)
          \/ BgShould(c)
          \/ BgGen(c)
          \/ BgSet(c)
          \/ BgLedger(c)
          \/ BgUnlock(c)

SpecRefresh == InitRefresh /\ [][NextRefresh]_vars

\* the cooldown permits a refresh of key k now
CooldownPermits(k) ==
    \/ cfg.refreshCooldown <= 0
    \/ k \notin DOMAIN ledger
    \/ now - ledger[k] >= cfg.refreshCooldown

\* call c is a hit under a default policy
DefaultPolicyHit(c) ==
    /\ call[c].op = "GetOrRefresh" /\ call[c].path = "hit"
    /\ call[c].policy \notin {MissPolicyRefreshAhead, MissPolicyProbabilisticRefresh}

\* C29 as claimed: shouldRefreshNow is true exactly when the cooldown is
\* non-positive, or the ledger has no entry for the key, or the time since
\* the recorded entry is at least the cooldown; with cooldown 0 every hit
\* under a default policy spawns a background refresh
C29_EveryHitRefreshes ==
    /\ shouldRefreshNow(fullKey(Key)) <=> CooldownPermits(fullKey(Key))
    /\ \A c \in Calls :
          cfg.refreshCooldown = 0 /\ DefaultPolicyHit(c) /\ call[c].pc = "done"
          => bg[c].kind = "refresh"

\* C29 as amended: shouldRefreshNow is true exactly when the cooldown is
\* non-positive, or the ledger has no entry for the key, or the time since
\* the recorded entry is at least the cooldown; a hit under a default policy
\* spawns a background refresh exactly when that holds at its decision, so
\* with cooldown 0 every such hit spawns one, unless the call disabled hit
\* refresh, in which case it spawns none
C29_HitRefreshesIfPermitted ==
    [][/\ shouldRefreshNow(fullKey(Key)) <=> CooldownPermits(fullKey(Key))
       /\ \A c \in Calls :
             /\ DefaultPolicyHit(c) /\ call[c].pc = "hitrefresh"
                /\ call'[c].pc # "hitrefresh"
                   => /\ ~call[c].nohit
                      /\ bg'[c].kind = "refresh" <=> CooldownPermits(fullKey(Key))
                      /\ cfg.refreshCooldown <= 0 => bg'[c].kind = "refresh"
             /\ DefaultPolicyHit(c)' /\ call'[c].nohit => bg'[c].kind = "none"
             /\ bg[c].pc = "should" /\ bg'[c].pc # "should"
                   => bg'[c].pc = "gen" <=> CooldownPermits(fullKey(Key))]_vars

\* under the positive cooldown a miss recorded its write in the ledger and
\* a later hit was granted its refresh exactly when the cooldown had elapsed
C29_Witness ==
    \E c, d \in Calls :
        /\ cfg.refreshCooldown = Cooldown
        /\ call[c].path = "miss" /\ call[c].pc = "done"
        /\ DefaultPolicyHit(d) /\ call[d].pc = "hitret" /\ ~call[d].nohit
        /\ bg[d].kind = "refresh" /\ ~bg[d].got
        /\ fullKey(Key) \in DOMAIN ledger
        /\ now - ledger[fullKey(Key)] = cfg.refreshCooldown

\* the refresh task of call d invokes the generator in this step
RefreshGenerates(d) ==
    /\ bg[d].kind = "refresh"
    /\ stats'[d].bgGens = stats[d].bgGens + 1

\* C30: with a positive cooldown C, two generator invocations made by
\* standard background refresh tasks for the same key are at least C apart,
\* whatever the outcome of the earlier refresh
C30_RefreshesCooldownApart ==
    [][\A c, d \in Calls :
          /\ cfg.refreshCooldown > 0
          /\ c # d /\ RefreshGenerates(d)
          /\ bg[c].kind = "refresh" /\ stats[c].bgGens = 1
          => now - bg[c].tgen >= cfg.refreshCooldown]_vars

(***************************************************************************)
(* Termination.  NumCalls concurrent calls of Set, Get and GetOrRefresh    *)
(* under any policy on one key; the backend and the generator may fail but *)
(* always return.  The refresh-ahead threshold is 1, so that a scheduled   *)
(* refresh sleeps for no time, and the cooperative timeout can fire at     *)
(* once.  Every goroutine that can run eventually runs (the Go scheduler), *)
(* which is weak fairness of the steps of each call and of each task.      *)
(***************************************************************************)
InitLive ==
    \E backend \in Backends :
        InitHandler(NumCalls,
                    [DefaultConfig EXCEPT !.prefix = "t", !.cooperativeTimeout = 0,
                                          !.defaultRefreshAheadThreshold = 100],
                    [AnyEnv EXCEPT !.ops = {"Set", "Get", "GetOrRefresh"},
                                   !.nohitOpts = {FALSE}],
                    backend)

NextLive ==
    \E c \in 1..NumCalls :
        \/ StartCall(c)
        \/ CallGet(c)
        \/ HitRefresh(c)
        \/ HitReturn(c)
        \/ StaleGet(c)
        \/ CoopTimeout(c)
        \/ CoopDone(c)
        \/ CallLock(c)
        \/ DoubleCheck(c)
        \/ GenReturn(c)
        \/ CallSet(c)
        \/ CallUnlock(c)
        \/ BgSleep(c)
        \/ BgTryLock(c)
        \/ BgExists(c)
        \/ BgGen(c)
        \/ BgSet(c)
        \/ BgSetStale(c)
        \/ BgUnlock(c)
        \/ BgCreated(c)
        \/ BgCoopLock(c)
        \/ BgCoopClose(c)

\* a step of the caller of call c, once the call is made
CallStep(c) ==
    \/ CallGet(c)
    \/ HitRefresh(c)
    \/ HitReturn(c)
    \/ StaleGet(c)
    \/ CoopTimeout(c)
    \/ CoopDone(c)
    \/ CallLock(c)
    \/ DoubleCheck(c)
    \/ GenReturn(c)
    \/ CallSet(c)
    \/ CallUnlock(c)

\* a step of the goroutine call c spawned
BgStep(c) ==
    \/ BgSleep(c)
    \/ BgTryLock(c)
    \/ BgExists(c)
    \/ BgGen(c)
    \/ BgSet(c)
    \/ BgSetStale(c)
    \/ BgUnlock(c)
    \/ BgCreated(c)
    \/ BgCoopLock(c)
    \/ BgCoopClose(c)

SpecLive ==
    /\ InitLive
    /\ [][NextLive]_vars
    /\ \A c \in 1..NumCalls : WF_vars(CallStep(c)) /\ WF_vars(BgStep(c))

\* call c has returned and the task it spawned, if any, has ended
Finished(c) == call[c].pc = "done" /\ bg[c].pc \in {"none", "done"}

\* no call is under way and no task is running
Settled ==
    \A c \in Calls : call[c].pc \in {"idle", "done"} /\ bg[c].pc \in {"none", "done"}

\* C31: the handler never deadlocks: every call that is made returns and
\* every task it spawned, the cooperative lock helper included, ends; and
\* once nothing is running the key's lock can be acquired again
C31_NoDeadlock ==
    /\ \A c \in 1..NumCalls : (call[c].pc # "idle") ~> Finished(c)
    /\ [](Settled => CanSend(locks, fullKey(Key)))

\* a CooperativeRefresh call that went on when its lock helper closed done,
\* and a second call that generated under the lock, have both finished and
\* the lock can be taken again
C31_Witness ==
    \E c, d \in Calls :
        /\ c # d /\ Finished(c) /\ Finished(d)
        /\ call[c].policy = MissPolicyCooperativeRefresh
        /\ bg[c].kind = "coop" /\ bg[c].closed /\ call[c].path = "miss"
        /\ call[d].policy = MissPolicySyncWriteThenReturn /\ call[d].gen = "ok"
        /\ fullKey(Key) \in DOMAIN locks
        /\ CanSend(locks, fullKey(Key))

(***************************************************************************)
(* Backend operations on the hit path, under Spec.                         *)
(***************************************************************************)
\* C32: on a cache hit, under every policy, the caller's path issues no
\* backend operation after the initial Get before GetOrRefresh returns: the
\* TTL probe of RefreshAhead is not made on the caller's goroutine
C32_HitIssuesNoBackendOp ==
    \A c \in Calls :
        call[c].op = "GetOrRefresh" /\ call[c].path = "hit"
        => stats[c].fgProbes = 0

(***************************************************************************)
(* SpecAll: the calls of SpecLive in any interleaving, without fairness.   *)
(***************************************************************************)
SpecAll == InitLive /\ [][NextLive]_vars

\* the background miss write of call c writes the key in this step
MissWriteWrites(c) ==
    /\ bg[c].kind = "misswrite" /\ bg[c].pc = "set"
    /\ stats'[c].bgWrites = stats[c].bgWrites + 1

\* the writer of entry e does not take the key lock: Set, or a BestEffort miss
LockFreeWriter(e) ==
    \/ e.by.role = "Set"
    \/ e.by.role = "miss" /\ call[e.by.c].policy = MissPolicyBestEffort

\* C33 as claimed: the background write spawned by a ReturnThenAsyncWrite
\* miss never replaces a value that is present in the backend at the moment
\* of its write
C33_WritesOnlyIfAbsent ==
    [][\A c \in Calls : MissWriteWrites(c) => ~Present(fullKey(Key))]_vars

\* C33 as amended: the background write goes on to write only if its
\* existence check, made under the key lock, found the key absent; a value it
\* replaces was written after that check by a writer that does not take the
\* key lock (Set, or a BestEffort miss)
C33_WritesOnlyIfAbsentAtCheck ==
    [][\A c \in Calls :
          /\ bg[c].kind = "misswrite" /\ bg[c].pc = "exists" /\ bg'[c].pc = "set"
                => ~Present(fullKey(Key))
          /\ MissWriteWrites(c) /\ Present(fullKey(Key))
                => LockFreeWriter(rdb[fullKey(Key)])]_vars

\* a background miss write found the key absent, a Set then wrote it, and
\* the background write replaced the value of the Set
C33_Witness ==
    \E c, d \in Calls :
        /\ bg[c].kind = "misswrite" /\ stats[c].bgWrites = 1
        /\ call[d].op = "Set" /\ stats[d].fgWrites = 1
        /\ Present(fullKey(Key))
        /\ rdb[fullKey(Key)].by = [c |-> c, role |-> "misswrite"]

\* the generator invocations made for call c: on the caller's path and in
\* the task the call spawned
GensOf(c) == stats[c].fgGens + stats[c].bgGens

\* C34 as claimed: for each GetOrRefresh call the generator passed to it is
\* invoked at most once in total, counting the caller's synchronous path and
\* every background task the call spawned, under every policy
C34_GeneratorAtMostOnce ==
    \A c \in Calls : GensOf(c) <= 1

\* C34 as amended: the generator is invoked at most once on the caller's
\* synchronous path and at most once by the tasks the call spawned; both
\* happen only for a RefreshAhead miss, whose scheduled refresh invokes the
\* generator a second time
C34_OncePerPathTwiceOnlyRefreshAhead ==
    \A c \in Calls :
        /\ stats[c].fgGens <= 1
        /\ stats[c].bgGens <= 1
        /\ GensOf(c) > 1 => /\ call[c].policy = MissPolicyRefreshAhead
                            /\ call[c].path = "miss" /\ call[c].gen = "ok"
                            /\ call[c].res.err = "nil"
                            /\ bg[c].kind = "refresh"

\* a RefreshAhead miss generated under the lock and its scheduled refresh
\* generated again
C34_Witness ==
    \E c \in Calls :
        /\ call[c].policy = MissPolicyRefreshAhead /\ call[c].pc = "done"
        /\ stats[c].fgGens = 1 /\ stats[c].bgGens = 1
        /\ stats[c].fgWrites = 1 /\ stats[c].bgWrites = 1

(***************************************************************************)
(* Lock discipline of the handler's tasks, under SpecCooldown.             *)
(***************************************************************************)
\* the tokens in the channel of key k
Tokens(k) == IF k \in DOMAIN locks THEN locks[k] ELSE 0

\* the caller of call c is inside missSyncWriteThenReturn, between its Lock
\* and its deferred unlock
CallHolds(c) ==
    \/ call[c].pc \in {"dcheck", "unlock"}
    \/ /\ call[c].pc \in {"gen", "set", "ledger"}
       /\ call[c].op = "GetOrRefresh" /\ call[c].path = "miss"
       /\ call[c].policy \in SyncPathPolicies

\* the task of call c is between its successful TryLock (or Lock, for the
\* cooperative lock helper) and its deferred unlock
BgHolds(c) ==
    \/ bg[c].pc \in {"should", "gen", "set", "ledger", "setstale", "close", "unlock"}
    \/ bg[c].pc = "exists" /\ bg[c].kind = "misswrite"

\* C35: every task that acquires the key lock releases it on every exit
\* path: the lock is taken exactly while one of these tasks is between its
\* acquisition and its release, so whenever no such task is active the
\* key's lock is free
C35_LockReleasedOnEveryExit ==
    /\ Tokens(fullKey(Key)) = Cardinality({c \in Calls : CallHolds(c)})
                              + Cardinality({c \in Calls : BgHolds(c)})
    /\ (\A c \in Calls : ~CallHolds(c) /\ ~BgHolds(c))
          => CanSend(locks, fullKey(Key))

\* a refresh task took the lock after another task had written the key,
\* left on its cooldown exit without generating, and the lock is free
C35_Witness ==
    \E c, d \in Calls :
        /\ bg[c].kind = "refresh" /\ bg[c].got /\ bg[c].pc = "done"
        /\ stats[c].bgGens = 0
        /\ bg[d].kind = "refresh" /\ bg[d].pc = "done" /\ stats[d].bgLedger = 1
        /\ call[c].pc = "done" /\ call[d].pc = "done"
        /\ Tokens(fullKey(Key)) = 0

\* the task of call c has written nothing: no backend entry is its own and
\* it has made no write and no ledger update
BgWroteNothing(c) ==
    /\ stats[c].bgWrites = 0 /\ stats[c].bgLedger = 0
    /\ \A k \in DOMAIN rdb :
          rdb[k].by.c = c => rdb[k].by.role \notin {"refresh", "stale", "stalecopy"}

\* the refresh or stale-refresh task of call c was refused by TryLock and
\* has exited
RefusedByTryLock(c) ==
    bg[c].kind \in {"refresh", "stale"} /\ bg[c].pc = "done" /\ ~bg[c].got

\* the standard refresh of call c took the lock and found the cooldown not
\* elapsed
RefusedByCooldown(c) ==
    /\ bg[c].kind = "refresh" /\ bg[c].got /\ cfg.refreshCooldown > 0
    /\ bg[c].pc \in {"unlock", "done"} /\ stats[c].bgGens = 0

NumProbCalls == 3

ProbBeta == 3

InitProb ==
    \E backend \in {NoMap, "t:k" :> Preloaded(Marshal(ValX).raw)},
       ttl \in {MaxTime - 1, MaxTime + 1} :
        InitHandler(NumProbCalls,
                    [DefaultConfig EXCEPT
                        !.prefix = "t", !.defaultTTL = ttl,
                        !.defaultMissPolicy = MissPolicyProbabilisticRefresh,
                        !.refreshCooldown = Cooldown],
                    [AnyEnv EXCEPT !.faults = FALSE,
                                   !.genOut = {GenOk(ValY)},
                                   !.ops = {"Set", "GetOrRefresh"},
                                   !.overrides = {NoOverride},
                                   !.ttlOpts = {0},
                                   !.betaOpts = {0, ProbBeta},
                                   !.nohitOpts = {FALSE},
                                   !.setVals = {ValX}],
                    backend)

\* what the callers of SpecProb do: the first sets, the others read through
ProbOps(c) == IF c = 1 THEN {"Set"} ELSE {"GetOrRefresh"}

NextProb ==
    \/ Tick
    \/ \E c \in 1..NumProbCalls :
          \/ StartCall(c) /\ call'[c].op \in ProbOps(c)
          \/ CallGet(c)
          \/ HitRefresh(c)
          \/ HitReturn(c)
          \/ CallLock(c)
          \/ DoubleCheck(c)
          \/ GenReturn(c)
          \/ CallSet(c)
          \/ CallLedger(c)
          \/ CallUnlock(c)
          \/ BgTryLock(c)
          \/ BgShould(c)
          \/ BgGen(c)
          \/ BgSet(c)
          \/ BgLedger(c)
          \/ BgUnlock(c)
          \/ BgCreated(c)

SpecProb == InitProb /\ [][NextProb]_vars

\* call c, a hit under ProbabilisticRefresh, decides on its refresh in this
\* step
DecidesProbabilistic(c) ==
    /\ call[c].policy = MissPolicyProbabilisticRefresh
    /\ call[c].pc = "hitrefresh" /\ call'[c].pc # "hitrefresh"

Stamped == createdKeyOf(Key) \in DOMAIN ledger

\* the entry of the key was written by Set or by a miss under another policy
PopulatedOtherwise ==
    /\ Present(fullKey(Key))
    /\ \/ rdb[fullKey(Key)].by.role = "Set"
       \/ /\ rdb[fullKey(Key)].by.role = "miss"
          /\ call[rdb[fullKey(Key)].by.c].policy # MissPolicyProbabilisticRefresh

\* C37 as claimed: under ProbabilisticRefresh a hit on a key that has no
\* '@created' stamp never spawns a background refresh, whatever beta and
\* TTL are; in particular a key populated by Set or by another policy is
\* never refreshed on a ProbabilisticRefresh hit
C37_UnstampedOrSetNeverRefreshed ==
    [][\A c \in Calls :
          DecidesProbabilistic(c) /\ (~Stamped \/ PopulatedOtherwise)
          => bg'[c].kind = "none"]_vars

\* C37 as amended: under ProbabilisticRefresh a hit on a key that has no
\* '@created' stamp never spawns a background refresh, whatever beta and
\* TTL are; a hit that spawns one finds a stamp older than the present
\* time, whoever wrote the entry that is served
C37_UnstampedNeverRefreshed ==
    [][\A c \in Calls :
          DecidesProbabilistic(c)
          => /\ ~Stamped => bg'[c].kind = "none"
             /\ bg'[c].kind # "none"
                   => /\ bg'[c].kind = "refresh"
                      /\ now > ledger[createdKeyOf(Key)]]_vars

\* after time has passed, a ProbabilisticRefresh hit with the larger beta on
\* a key written by Set, with no '@created' stamp, has returned without a
\* refresh task
C37_Witness ==
    \E c \in Calls :
        /\ call[c].policy = MissPolicyProbabilisticRefresh
        /\ call[c].path = "hit" /\ call[c].pc = "done"
        /\ call[c].beta = ProbBeta /\ bg[c].kind = "none"
        /\ now > 0 /\ ~Stamped
        /\ Present(fullKey(Key)) /\ rdb[fullKey(Key)].by.role = "Set"

(***************************************************************************)
(* Set against read-through calls over time: NumCalls calls of Set, of a   *)
(* value json can or cannot encode, and of GetOrRefresh under the default  *)
(* policy; the cooldown is positive, entries outlive the horizon, the key  *)
(* is absent or present at the start, the backend is reliable or may fail, *)
(* and the generator returns Y.                                            *)
(***************************************************************************)
InitSet ==
    \E backend \in {NoMap, "t:k" :> [Preloaded(Marshal(ValX).raw) EXCEPT !.exp = MaxTime + 1]},
       faults \in BOOLEAN :
        InitHandler(NumCalls,
                    [DefaultConfig EXCEPT !.prefix = "t",
                                          !.defaultTTL = MaxTime + 1,
                                          !.refreshCooldown = Cooldown],
                    [AnyEnv EXCEPT !.faults = faults,
                                   !.genOut = {GenOk(ValY)},
                                   !.ops = {"Set", "GetOrRefresh"},
                                   !.overrides = {NoOverride},
                                   !.nohitOpts = {FALSE},
                                   !.setVals = {ValX, ValUnsupported}],
                    backend)

NextSet ==
    \/ Tick
    \/ \E c \in 1..NumCalls :
          \/ StartCall(c)
          \/ CallGet(c)
          \/ HitRefresh(c)
          \/ HitReturn(c)
          \/ CallLock(c)
          \/ DoubleCheck(c)
          \/ GenReturn(c)
          \/ CallSet(c)
          \/ CallLedger(c)
          \/ CallUnlock(c)
          \/ BgTryLock(c)
          \/ BgShould(c)
          \/ BgGen(c)
          \/ BgSet(c)
          \/ BgLedger(c)
          \/ BgUnlock(c)

SpecSet == InitSet /\ [][NextSet]_vars

\* the Set of call c returns in this step
SetReturns(c) ==
    call[c].op = "Set" /\ call[c].pc # "done" /\ call'[c].pc = "done"

\* C38: a Set that fails returns an error and leaves the refresh ledger
\* unchanged; when the failure is an encode error the backend is left
\* unchanged as well: no write is attempted
C38_FailedSetLeavesLedger ==
    [][\A c \in Calls :
          /\ SetReturns(c) /\ ~Marshal(call[c].arg).ok
                => /\ call'[c].res.err = "marshal"
                   /\ rdb' = rdb /\ stats' = stats /\ ledger' = ledger
          /\ SetReturns(c) /\ call'[c].res.err # "nil"
                => /\ ledger' = ledger /\ rdb' = rdb
                   /\ stats'[c].fgLedger = 0 /\ stats'[c].fgWrites = 0
          /\ call[c].op = "Set" /\ call[c].pc = "set" /\ call'[c].pc # "set"
             /\ rdb' = rdb
                => SetReturns(c) /\ call'[c].res.err \in {"marshal", "redis set"}
          /\ call[c].op = "Set" /\ call[c].pc = "ledger"
                => stats[c].fgWrites = 1]_vars

\* after an earlier write stamped the ledger and time has passed, a Set of a
\* value json cannot encode has returned its error; entry and stamp are the
\* earlier ones
C38_Witness ==
    \E c, d \in Calls :
        /\ call[c].op = "Set" /\ call[c].pc = "done"
        /\ call[c].arg = ValUnsupported /\ call[c].res.err = "marshal"
        /\ call[d].op = "Set" /\ call[d].pc = "done" /\ call[d].res.err = "nil"
        /\ fullKey(Key) \in DOMAIN ledger /\ ledger[fullKey(Key)] < now
        /\ call[c].t0 > ledger[fullKey(Key)]
        /\ Present(fullKey(Key)) /\ rdb[fullKey(Key)].by = [c |-> d, role |-> "Set"]

\* the refresh task of call c holds the key's entry although the Set of
\* call d completed after the task's generator was invoked
RefreshOverwroteSet(c, d) ==
    /\ bg[c].kind = "refresh" /\ stats[c].bgWrites = 1
    /\ Present(fullKey(Key))
    /\ rdb[fullKey(Key)].by = [c |-> c, role |-> "refresh"]
    /\ call[d].op = "Set" /\ call[d].pc = "done" /\ call[d].res.err = "nil"
    /\ call[d].t0 > bg[c].tgen

\* C39 as claimed: a value stored by a Set that completes while a background
\* refresh of the key is in progress is not afterwards overwritten by that
\* refresh with a value whose generation started before the Set
C39_NoLostUpdate ==
    \A c, d \in Calls : ~RefreshOverwroteSet(c, d)

\* C39 as amended: a background refresh writes the value it generated
\* whatever the key holds by then: when the backend accepts its write the
\* entry is the refresh's, also when it replaces the value of a Set that
\* completed after the generator was invoked (the last write wins)
C39_RefreshWritesUnconditionally ==
    [][\A c \in Calls :
          bg[c].kind = "refresh" /\ bg[c].pc = "set" /\ bg'[c].pc # "set"
          => /\ ~env.faults => rdb' # rdb
             /\ rdb' # rdb
                   => /\ rdb'[fullKey(Key)].raw = Marshal(bg[c].v).raw
                      /\ rdb'[fullKey(Key)].by = [c |-> c, role |-> "refresh"]
                      /\ stats'[c].bgWrites = stats[c].bgWrites + 1]_vars

\* a refresh invoked its generator, a Set then stored X and returned, and the
\* refresh replaced X by the value it had generated
C39_Witness ==
    \E c, d \in Calls :
        /\ RefreshOverwroteSet(c, d)
        /\ rdb[fullKey(Key)].raw = Marshal(ValY).raw
        /\ call[d].arg = ValX /\ stats[d].fgWrites = 1

\* the '@created' entry of the key is written, changed or removed in this step
CreatedStampChanges ==
    \/ Stamped # Stamped'
    \/ Stamped /\ Stamped' /\ ledger'[createdKeyOf(Key)] # ledger[createdKeyOf(Key)]

\* the task spawned by the successful ProbabilisticRefresh miss of call c
\* runs enableProbabilisticRefresh in this step
EnablesProbabilistic(c) ==
    /\ bg[c].kind = "enable" /\ bg[c].pc = "created" /\ bg'[c].pc = "done"
    /\ call[c].policy = MissPolicyProbabilisticRefresh
    /\ call[c].path = "miss" /\ call[c].pc = "done" /\ call[c].res.err = "nil"

(***************************************************************************)
(* Keys that end in "@created".  NumCalls calls of Set, on the key or on   *)
(* the user key made of the key and "@created", and of GetOrRefresh on the *)
(* key under ProbabilisticRefresh, over time.  The cooldown is positive,   *)
(* so that every Set stamps the ledger entry of the key it writes; the key *)
(* is absent or present at the start; the backend and the generator are    *)
(* reliable.                                                               *)
(***************************************************************************)
InitAlias ==
    \E backend \in {NoMap, "t:k" :> [Preloaded(Marshal(ValX).raw) EXCEPT !.exp = MaxTime + 1]} :
        InitHandler(NumCalls,
                    [DefaultConfig EXCEPT
                        !.prefix = "t", !.defaultTTL = MaxTime + 1,
                        !.defaultMissPolicy = MissPolicyProbabilisticRefresh,
                        !.refreshCooldown = Cooldown],
                    [AnyEnv EXCEPT !.faults = FALSE,
                                   !.genOut = {GenOk(ValY)},
                                   !.ops = {"Set", "GetOrRefresh"},
                                   !.overrides = {NoOverride},
                                   !.betaOpts = {0, ProbBeta},
                                   !.nohitOpts = {FALSE},
                                   !.setVals = {ValX},
                                   !.keys = {Key, CreatedAlias}],
                    backend)

NextAlias ==
    \/ Tick
    \/ \E c \in 1..NumCalls :
          \/ StartCall(c)
          \/ CallGet(c)
          \/ HitRefresh(c)
          \/ HitReturn(c)
          \/ CallLock(c)
          \/ DoubleCheck(c)
          \/ GenReturn(c)
          \/ CallSet(c)
          \/ CallLedger(c)
          \/ CallUnlock(c)
          \/ BgTryLock(c)
          \/ BgShould(c)
          \/ BgGen(c)
          \/ BgSet(c)
          \/ BgLedger(c)
          \/ BgUnlock(c)
          \/ BgCreated(c)

SpecAlias == InitAlias /\ [][NextAlias]_vars

\* C40: the '<fullKey>@created' ledger entry is written only by the task
\* spawned from a successful ProbabilisticRefresh miss on the key; Set, the
\* writes of background refreshes and every other step leave it unchanged,
\* so a background refresh does not reset the age of the probabilistic
\* decision
C40_CreatedStampOnlyByMissTask ==
    [][/\ CreatedStampChanges
             => /\ \E c \in Calls : EnablesProbabilistic(c)
                /\ Stamped' /\ ledger'[createdKeyOf(Key)] = now
       /\ \A c \in Calls :
             (\/ call[c].op = "Set" /\ call'[c] # call[c]
              \/ bg[c].kind = "refresh" /\ bg'[c] # bg[c])
             => ~CreatedStampChanges]_vars

====
